---- MODULE Spec2Model ----
(***************************************************************************)
(* Verification model of the hermes self-play engine: the tic-tac-toe game *)
(* (src/game/tic_tac_toe), the game of boop (src/game/boop), the Runner    *)
(* (src/core/runner/runner.rs), the sample sink                            *)
(* (src/self_play/sample_runner_event_sink.rs) and the MCTS driver with    *)
(* its evaluators, expanders and seeding (src/player/mcts).                *)
(*                                                                         *)
(* Bitboards (u16) are modelled as sets of square indices 0..8; a Vec is a *)
(* sequence; f32 values that the modelled code only ever sets to -1, 0, +1 *)
(* or sums of those are integers.                                          *)
(***************************************************************************)
EXTENDS Integers, Sequences, FiniteSets, TLC

VARIABLES
    \* Runner::run (locals and fields)
    pc, games, max_turns, players, game_number, game, turn_number, turn,
    choice, turn_complete,
    \* SampleRunnerEventSink
    use_symmetries, pending_samples, sink_out,
    \* StatisticsRunnerEventSink (its four counters)
    statistics,
    \* observation of the event stream
    last_event, hist, fed,
    \* Mcts::search (fields, arguments and locals)
    s_pc, root_game, simulations, expander, temperature, sims_done, tree,
    checkpoint, node_index, evaluation, value, result, leaf_visits,
    dirichlet_noise, raw_evaluation,
    \* Evaluator::evaluate (argument, rollout's local game, result)
    e_pc, e_kind, e_game, e_clone, e_real, e_plies, e_prediction, e_result,
    \* two Mcts drivers of one configuration (their RNGs, trees and results)
    drivers, evaluator_kind, predictor,
    \* RolloutEvaluator::evaluate on a game of boop
    b_pc, b_game, b_clone, b_plies, b_steps, b_result,
    \* a game object driven through the Game trait (one of each game)
    g_pc, g_kind, g_tic_tac_toe, g_boop, g_plies,
    \* one call of a function of the library (its arguments and what it returned)
    f_pc, f_args, f_result

runner_vars == <<pc, games, max_turns, players, game_number, game, turn_number,
                 turn, choice, turn_complete>>
sink_vars == <<use_symmetries, pending_samples, sink_out, statistics>>
obs_vars == <<last_event, hist, fed>>
search_vars == <<s_pc, root_game, simulations, expander, temperature, sims_done, tree,
                 checkpoint, node_index, evaluation, value, result, leaf_visits,
                 dirichlet_noise, raw_evaluation>>
evaluator_vars == <<e_pc, e_kind, e_game, e_clone, e_real, e_plies, e_prediction, e_result>>
seed_vars == <<drivers, evaluator_kind, predictor>>
boop_vars == <<b_pc, b_game, b_clone, b_plies, b_steps, b_result>>
protocol_vars == <<g_pc, g_kind, g_tic_tac_toe, g_boop, g_plies>>
call_vars == <<f_pc, f_args, f_result>>
rest_vars == <<protocol_vars, call_vars>>
aux_vars == <<evaluator_vars, seed_vars, boop_vars, rest_vars>>
vars == <<runner_vars, sink_vars, obs_vars, search_vars, aux_vars>>

\* Option<T>: None is the empty sequence, Some(x) the one-element sequence
None == <<>>
Some(x) == <<x>>
unwrap(o) == o[1]

\* f32 priors are kept as exact fractions <<numerator, denominator>>
Fraction(n, d) == <<n, d>>

(***************************************************************************)
(* Bounds                                                                  *)
(***************************************************************************)
MaxGames == 2
MaxTurnsCap == 3
MaxEvents == 5
MaxSimulations == 8
MaxSeedSimulations == 2
MaxSeed == 1
RngStates == 3
MaxPlaySquare == 5
MaxBoopPlies == 2
MaxRolloutSteps == 7
MaxProtocolPlies == 7
MaxThreshold == 3
MaxTemperature == 2
MaxTurnNumber == 4

(***************************************************************************)
(* core/turn.rs                                                            *)
(***************************************************************************)
Turn == {"PlayerOne", "PlayerTwo"}

\* variant: the turn stays with the side that moved
advance_same(t) == t

\* Turn::advance
advance(t) == IF t = "PlayerOne" THEN "PlayerTwo" ELSE "PlayerOne"

Outcome == {"InProgress", "Win", "Loss", "Draw"}

(***************************************************************************)
(* Sequence helpers (Vec operations)                                       *)
(***************************************************************************)
RECURSIVE SetToSortedSeq(_)
SetToSortedSeq(S) ==
    IF S = {} THEN <<>>
    ELSE LET m == CHOOSE x \in S : \A y \in S : x <= y
         IN <<m>> \o SetToSortedSeq(S \ {m})

SeqRange(s) == {s[i] : i \in 1..Len(s)}

(***************************************************************************)
(* game/tic_tac_toe/tic_tac_toe.rs                                         *)
(***************************************************************************)
BOARD_SIZE == 3
SYMMETRY_COUNT == 8
ACTION_COUNT == 9

Squares == 0..(BOARD_SIZE * BOARD_SIZE - 1)

xy_to_mask(x, y) == x * BOARD_SIZE + y

\* variant: the diagonal from the top right to the bottom left is left out
make_three_in_a_row_masks_without_anti_diagonal ==
    UNION {
        (IF y < BOARD_SIZE - 2
            THEN {{xy_to_mask(x, y), xy_to_mask(x, y + 1), xy_to_mask(x, y + 2)}}
            ELSE {})
        \cup
        (IF x < BOARD_SIZE - 2
            THEN {{xy_to_mask(x, y), xy_to_mask(x + 1, y), xy_to_mask(x + 2, y)}}
            ELSE {})
        \cup
        (IF x < BOARD_SIZE - 2 /\ y < BOARD_SIZE - 2
            THEN {{xy_to_mask(x, y), xy_to_mask(x + 1, y + 1), xy_to_mask(x + 2, y + 2)}}
            ELSE {})
        : x \in 0..(BOARD_SIZE - 1), y \in 0..(BOARD_SIZE - 1)}

\* make_three_in_a_row_masks: the masks pushed while x, y sweep the board
make_three_in_a_row_masks ==
    UNION {
        (IF y < BOARD_SIZE - 2
            THEN {{xy_to_mask(x, y), xy_to_mask(x, y + 1), xy_to_mask(x, y + 2)}}
            ELSE {})
        \cup
        (IF x < BOARD_SIZE - 2
            THEN {{xy_to_mask(x, y), xy_to_mask(x + 1, y), xy_to_mask(x + 2, y)}}
            ELSE {})
        \cup
        (IF x > 1 /\ y < BOARD_SIZE - 2
            THEN {{xy_to_mask(x, y), xy_to_mask(x - 1, y + 1), xy_to_mask(x - 2, y + 2)}}
            ELSE {})
        \cup
        (IF x < BOARD_SIZE - 2 /\ y < BOARD_SIZE - 2
            THEN {{xy_to_mask(x, y), xy_to_mask(x + 1, y + 1), xy_to_mask(x + 2, y + 2)}}
            ELSE {})
        : x \in 0..(BOARD_SIZE - 1), y \in 0..(BOARD_SIZE - 1)}

THREE_IN_A_ROW_MASKS == make_three_in_a_row_masks

TicTacToe_new == [player_marks |-> {}, opponent_marks |-> {}]

\* variant: a full board without a line is not recognised as a draw
outcome_without_draw(g) ==
    IF \E mask \in THREE_IN_A_ROW_MASKS : mask \subseteq g.opponent_marks THEN "Loss"
    ELSE IF \E mask \in THREE_IN_A_ROW_MASKS : mask \subseteq g.player_marks THEN "Win"
    ELSE "InProgress"

\* lines 190-214
outcome(g) ==
    IF \E mask \in THREE_IN_A_ROW_MASKS : mask \subseteq g.opponent_marks THEN "Loss"
    ELSE IF \E mask \in THREE_IN_A_ROW_MASKS : mask \subseteq g.player_marks THEN "Win"
    ELSE IF (g.player_marks \cup g.opponent_marks) = Squares THEN "Draw"
    ELSE "InProgress"

\* the Vec is in increasing index order (into_indices peels the lowest bit)
get_possible_actions(g) ==
    IF outcome(g) # "InProgress" THEN <<>>
    ELSE SetToSortedSeq(Squares \ (g.player_marks \cup g.opponent_marks))

\* apply_action: the new state and the returned turn_complete flag
apply_action(g, action) ==
    [game |-> [g EXCEPT !.player_marks = @ \cup {action}], turn_complete |-> TRUE]

flip_perspective(g) ==
    [player_marks |-> g.opponent_marks, opponent_marks |-> g.player_marks]

end_turn(g) == flip_perspective(g)

create_checkpoint(g) ==
    [player_marks |-> g.player_marks, opponent_marks |-> g.opponent_marks]

\* variant: only the mover's bitboard is put back
restore_checkpoint_player_only(g, cp) ==
    [g EXCEPT !.player_marks = cp.player_marks]

restore_checkpoint(g, cp) ==
    [g EXCEPT !.player_marks = cp.player_marks,
              !.opponent_marks = cp.opponent_marks]

\* transform_position: <<row, col>> under one of the 8 board symmetries
transform_position(row, col, symmetry) ==
    CASE symmetry = 0 -> <<row, col>>
      [] symmetry = 1 -> <<col, BOARD_SIZE - row - 1>>
      [] symmetry = 2 -> <<BOARD_SIZE - row - 1, BOARD_SIZE - col - 1>>
      [] symmetry = 3 -> <<BOARD_SIZE - col - 1, row>>
      [] symmetry = 4 -> <<row, BOARD_SIZE - col - 1>>
      [] symmetry = 5 -> <<BOARD_SIZE - row - 1, col>>
      [] symmetry = 6 -> <<col, row>>
      [] symmetry = 7 -> <<BOARD_SIZE - col - 1, BOARD_SIZE - row - 1>>

transform_bitboard(bitboard, symmetry) ==
    {LET p == transform_position(index_old \div BOARD_SIZE, index_old % BOARD_SIZE, symmetry)
     IN p[1] * BOARD_SIZE + p[2] : index_old \in bitboard}

symmetries(g) == SYMMETRY_COUNT

transform(g, symmetry) ==
    [g EXCEPT !.player_marks = transform_bitboard(g.player_marks, symmetry),
              !.opponent_marks = transform_bitboard(g.opponent_marks, symmetry)]

\* variant: the action is left where it is
transform_action_in_place(g, action, symmetry) == action

\* lines 241-256
transform_action(g, action, symmetry) ==
    LET p == transform_position(action \div BOARD_SIZE, action % BOARD_SIZE, symmetry)
    IN p[1] * BOARD_SIZE + p[2]

(***************************************************************************)
(* game/boop/boop.rs, action.rs: bitboards (u64) are sets of square        *)
(* indices 0..35, index = x * 6 + y                                        *)
(***************************************************************************)
Boop_BOARD_SIZE == 6
POOL_SIZE == 8

\* Action::Place { piece, index } and Action::Graduate { mask }
Place(piece, index) == [kind |-> "Place", piece |-> piece, index |-> index, mask |-> {}]
Graduate(mask) == [kind |-> "Graduate", piece |-> "Kitten", index |-> 0, mask |-> mask]

\* the square whose bit Boop_xy_to_mask sets
Boop_xy_to_mask(x, y) == x * Boop_BOARD_SIZE + y

index_to_xy(index) == <<index \div Boop_BOARD_SIZE, index % Boop_BOARD_SIZE>>

\* the bounds test of apply_boop and of the mask tables
OnBoard(x, y) == x >= 0 /\ x < Boop_BOARD_SIZE /\ y >= 0 /\ y < Boop_BOARD_SIZE

\* make_neighbor_masks: the up to eight squares around `index`
NEIGHBOR_MASKS(index) ==
    LET xy == index_to_xy(index)
    IN {Boop_xy_to_mask(xy[1] + d[1], xy[2] + d[2]) :
           d \in {e \in (-1..1) \X (-1..1) :
                     e # <<0, 0>> /\ OnBoard(xy[1] + e[1], xy[2] + e[2])}}

\* the masks make_three_in_a_row_masks adds at (x, y), in its order
three_in_a_row_at(x, y) ==
    LET is_x_lo == x < Boop_BOARD_SIZE - 2
        is_x_hi == x > 1
        is_y_lo == y < Boop_BOARD_SIZE - 2
    IN (IF is_y_lo
           THEN <<{Boop_xy_to_mask(x, y), Boop_xy_to_mask(x, y + 1), Boop_xy_to_mask(x, y + 2)}>>
           ELSE <<>>)
       \o (IF is_x_lo
              THEN <<{Boop_xy_to_mask(x, y), Boop_xy_to_mask(x + 1, y), Boop_xy_to_mask(x + 2, y)}>>
              ELSE <<>>)
       \o (IF is_x_hi /\ is_y_lo
              THEN <<{Boop_xy_to_mask(x, y), Boop_xy_to_mask(x - 1, y + 1), Boop_xy_to_mask(x - 2, y + 2)}>>
              ELSE <<>>)
       \o (IF is_x_lo /\ is_y_lo
              THEN <<{Boop_xy_to_mask(x, y), Boop_xy_to_mask(x + 1, y + 1), Boop_xy_to_mask(x + 2, y + 2)}>>
              ELSE <<>>)

RECURSIVE three_in_a_row_from(_)
three_in_a_row_from(n) ==
    IF n = Boop_BOARD_SIZE * Boop_BOARD_SIZE THEN <<>>
    ELSE three_in_a_row_at(index_to_xy(n)[1], index_to_xy(n)[2]) \o three_in_a_row_from(n + 1)

Boop_THREE_IN_A_ROW_MASKS == three_in_a_row_from(0)

Boop_new ==
    [phase |-> "Place",
     player_cats |-> {}, player_kittens |-> {}, player_graduations |-> 0,
     opponent_cats |-> {}, opponent_kittens |-> {}, opponent_graduations |-> 0]

player_pool(g) ==
    [kittens_available |-> POOL_SIZE - g.player_graduations - Cardinality(g.player_kittens),
     cats_available |-> g.player_graduations - Cardinality(g.player_cats)]

\* the set bits of a board, lowest first
RECURSIVE into_indices(_)
into_indices(bits) ==
    IF bits = {} THEN <<>>
    ELSE LET lowest == CHOOSE i \in bits : \A j \in bits : i <= j
         IN <<lowest>> \o into_indices(bits \ {lowest})

RECURSIVE place_actions(_, _, _)
place_actions(indices, has_kitten_available, has_cat_available) ==
    IF indices = <<>> THEN <<>>
    ELSE (IF has_kitten_available THEN <<Place("Kitten", Head(indices))>> ELSE <<>>)
         \o (IF has_cat_available THEN <<Place("Cat", Head(indices))>> ELSE <<>>)
         \o place_actions(Tail(indices), has_kitten_available, has_cat_available)

get_possible_place_actions(g) ==
    LET pool == player_pool(g)
        empty_squares == (0..(Boop_BOARD_SIZE * Boop_BOARD_SIZE - 1))
                            \ (g.player_kittens \cup g.player_cats
                                  \cup g.opponent_kittens \cup g.opponent_cats)
    IN place_actions(into_indices(empty_squares),
                     pool.kittens_available > 0, pool.cats_available > 0)

get_possible_graduate_actions(g) ==
    LET player_pieces == g.player_kittens \cup g.player_cats
        lines == SelectSeq(Boop_THREE_IN_A_ROW_MASKS, LAMBDA mask : mask \subseteq player_pieces)
        singles == IF Cardinality(player_pieces) = POOL_SIZE
                      THEN into_indices(player_pieces) ELSE <<>>
    IN [i \in 1..Len(lines) |-> Graduate(lines[i])]
       \o [i \in 1..Len(singles) |-> Graduate({singles[i]})]

\* variant: a kitten pushes cats as well
apply_boop_by_any_piece(g, piece, index) ==
    LET all_pieces == g.player_kittens \cup g.player_cats
                         \cup g.opponent_kittens \cup g.opponent_cats
        neighbor_pieces == all_pieces \cap NEIGHBOR_MASKS(index)
        xy == index_to_xy(index)
        pushed(adjacent_index) ==
            LET adj == index_to_xy(adjacent_index)
                x_ == adj[1] + (adj[1] - xy[1])
                y_ == adj[2] + (adj[2] - xy[2])
            IN IF ~OnBoard(x_, y_) THEN {}
               ELSE IF Boop_xy_to_mask(x_, y_) \in all_pieces THEN {adjacent_index}
               ELSE {Boop_xy_to_mask(x_, y_)}
        moved(board) ==
            UNION {IF square \in neighbor_pieces THEN pushed(square) ELSE {square} :
                      square \in board}
    IN [g EXCEPT !.player_kittens = moved(@), !.player_cats = moved(@),
                 !.opponent_kittens = moved(@), !.opponent_cats = moved(@)]

\* apply_boop: every boopable neighbour is pushed one square away from
\* `index`; it leaves the board, stays when the square behind it was occupied
\* before the push, or moves there
apply_boop(g, piece, index) ==
    LET all_pieces == g.player_kittens \cup g.player_cats
                         \cup g.opponent_kittens \cup g.opponent_cats
        boopable_pieces == IF piece = "Kitten"
                              THEN g.player_kittens \cup g.opponent_kittens
                              ELSE all_pieces
        neighbor_pieces == boopable_pieces \cap NEIGHBOR_MASKS(index)
        xy == index_to_xy(index)
        pushed(adjacent_index) ==
            LET adj == index_to_xy(adjacent_index)
                x_ == adj[1] + (adj[1] - xy[1])
                y_ == adj[2] + (adj[2] - xy[2])
            IN IF ~OnBoard(x_, y_) THEN {}
               ELSE IF Boop_xy_to_mask(x_, y_) \in all_pieces THEN {adjacent_index}
               ELSE {Boop_xy_to_mask(x_, y_)}
        moved(board) ==
            UNION {IF square \in neighbor_pieces THEN pushed(square) ELSE {square} :
                      square \in board}
    IN [g EXCEPT !.player_kittens = moved(@), !.player_cats = moved(@),
                 !.opponent_kittens = moved(@), !.opponent_cats = moved(@)]

apply_place_action(g, piece, index) ==
    apply_boop(IF piece = "Kitten" THEN [g EXCEPT !.player_kittens = @ \cup {index}]
                                   ELSE [g EXCEPT !.player_cats = @ \cup {index}],
               piece, index)

apply_graduate_action(g, mask) ==
    [g EXCEPT !.player_kittens = @ \ mask,
              !.player_cats = @ \ mask,
              !.player_graduations = @ + Cardinality(g.player_kittens \cap mask)]

Boop_flip_perspective(g) ==
    [g EXCEPT !.player_kittens = g.opponent_kittens, !.opponent_kittens = g.player_kittens,
              !.player_cats = g.opponent_cats, !.opponent_cats = g.player_cats,
              !.player_graduations = g.opponent_graduations,
              !.opponent_graduations = g.player_graduations]

has_three_in_a_row(cats) ==
    \E i \in 1..Len(Boop_THREE_IN_A_ROW_MASKS) : Boop_THREE_IN_A_ROW_MASKS[i] \subseteq cats

Boop_outcome(g) ==
    IF has_three_in_a_row(g.opponent_cats) THEN "Loss"
    ELSE IF Cardinality(g.opponent_cats) = POOL_SIZE THEN "Loss"
    ELSE IF has_three_in_a_row(g.player_cats) THEN "Win"
    ELSE IF Cardinality(g.player_cats) = POOL_SIZE THEN "Win"
    ELSE "InProgress"

Boop_get_possible_actions(g) ==
    IF Boop_outcome(g) # "InProgress" THEN <<>>
    ELSE IF g.phase = "Place" THEN get_possible_place_actions(g)
    ELSE get_possible_graduate_actions(g)

\* variant: a placement always completes the turn
Boop_apply_action_completing_turn(g, action) ==
    IF action.kind = "Place"
       THEN [game |-> apply_place_action(g, action.piece, action.index),
             turn_complete |-> TRUE]
       ELSE [game |-> apply_graduate_action(g, action.mask), turn_complete |-> TRUE]

\* apply_action: the game afterwards and the returned turn_complete
Boop_apply_action(g, action) ==
    IF action.kind = "Place"
       THEN LET placed == apply_place_action(g, action.piece, action.index)
            IN IF get_possible_graduate_actions(placed) # <<>>
                  THEN [game |-> [placed EXCEPT !.phase = "Graduate"], turn_complete |-> FALSE]
                  ELSE [game |-> placed, turn_complete |-> TRUE]
       ELSE [game |-> apply_graduate_action(g, action.mask), turn_complete |-> TRUE]

\* variant: the phase is left as it is
Boop_end_turn_keeping_phase(g) == Boop_flip_perspective(g)

\* lines 450-454
Boop_end_turn(g) == Boop_flip_perspective([g EXCEPT !.phase = "Place"])

(***************************************************************************)
(* game/tic_tac_toe/state_encoder.rs, action_encoder.rs                    *)
(***************************************************************************)
bitboard_to_plane(bits) ==
    [i \in 1..(BOARD_SIZE * BOARD_SIZE) |-> IF (i - 1) \in bits THEN 1 ELSE 0]

StateEncoder_encode(state) ==
    bitboard_to_plane(state.player_marks) \o bitboard_to_plane(state.opponent_marks)

ActionEncoder_encode(action) == action

ActionEncoder_size == ACTION_COUNT

\* action_encoder.rs lines 17-23: u8::try_from panics above 255
ActionEncoder_decode(action_id) == IF action_id < 256 THEN action_id ELSE "panicked"

(***************************************************************************)
(* game/boop/action_encoder.rs                                             *)
(***************************************************************************)
PLACE_COUNT == 72
GRADUATE_THREE_IN_A_ROW_COUNT == 80
GRADUATE_SINGLE_COUNT == 36

Boop_ACTION_COUNT == PLACE_COUNT + GRADUATE_THREE_IN_A_ROW_COUNT + GRADUATE_SINGLE_COUNT

\* u64::trailing_zeros: the lowest set bit, 64 for an empty mask
trailing_zeros(mask) == IF mask = {} THEN 64 ELSE CHOOSE i \in mask : \A j \in mask : i <= j

\* variant: the kittens take the first 36 ids and the cats the next 36
BoopActionEncoder_encode_by_piece(action) ==
    IF action.kind = "Place"
       THEN action.index + (IF action.piece = "Kitten" THEN 0 ELSE 36)
    ELSE LET positions == {i \in 1..Len(Boop_THREE_IN_A_ROW_MASKS) :
                              Boop_THREE_IN_A_ROW_MASKS[i] = action.mask}
         IN IF positions # {}
               THEN PLACE_COUNT + (CHOOSE i \in positions : \A j \in positions : i <= j) - 1
               ELSE PLACE_COUNT + GRADUATE_THREE_IN_A_ROW_COUNT + trailing_zeros(action.mask)

\* lines 22-42: position() is the first index that holds the mask (0-based)
BoopActionEncoder_encode(action) ==
    IF action.kind = "Place"
       THEN action.index * 2 + (IF action.piece = "Kitten" THEN 0 ELSE 1)
    ELSE LET positions == {i \in 1..Len(Boop_THREE_IN_A_ROW_MASKS) :
                              Boop_THREE_IN_A_ROW_MASKS[i] = action.mask}
         IN IF positions # {}
               THEN PLACE_COUNT + (CHOOSE i \in positions : \A j \in positions : i <= j) - 1
               ELSE PLACE_COUNT + GRADUATE_THREE_IN_A_ROW_COUNT + trailing_zeros(action.mask)

\* lines 44-70
BoopActionEncoder_decode(action_id) ==
    IF action_id < PLACE_COUNT
       THEN Place(IF action_id % 2 = 0 THEN "Kitten" ELSE "Cat", action_id \div 2)
    ELSE IF action_id - PLACE_COUNT < GRADUATE_THREE_IN_A_ROW_COUNT
       THEN Graduate(Boop_THREE_IN_A_ROW_MASKS[action_id - PLACE_COUNT + 1])
    ELSE Graduate({action_id - PLACE_COUNT - GRADUATE_THREE_IN_A_ROW_COUNT})

(***************************************************************************)
(* core/runner/runner.rs: RunnerEvent, RunnerEventKind, RunnerEventContext *)
(***************************************************************************)
RunnerEventContext(gn, g, tn, t) ==
    [game_number |-> gn, game |-> g, turn_number |-> tn, turn |-> t]

RunnerEvent(kind, payload, context) ==
    [kind |-> kind, payload |-> payload, context |-> context]

(***************************************************************************)
(* self_play/sample_runner_event_sink.rs                                   *)
(***************************************************************************)
\* lines 68-76: a zeroed vector, then policy[action_index] = prior per item
RECURSIVE fill_policy(_, _, _, _)
fill_policy(policy, items, g, symmetry) ==
    IF items = <<>> THEN policy
    ELSE LET action_index == ActionEncoder_encode(transform_action(g, Head(items).action, symmetry))
         IN fill_policy([policy EXCEPT ![action_index + 1] = Head(items).prior],
                        Tail(items), g, symmetry)

\* lines 59-79: the entries pushed for one PositionEvaluated event
position_evaluated_entries(g, ev, use_sym) ==
    LET count == IF use_sym THEN symmetries(g) ELSE 1
    IN [k \in 1..count |->
            [state |-> StateEncoder_encode(transform(g, k - 1)),
             policy |-> fill_policy([i \in 1..ActionEncoder_size |-> Fraction(0, 1)],
                                    ev.policy, g, k - 1)]]

\* variant: the outcome is read without the turn it is relative to
sample_value_ignoring_turn(oc, t) ==
    CASE oc = "InProgress" -> "unreachable"
      [] oc = "Win" -> 1
      [] oc = "Loss" -> -1
      [] oc = "Draw" -> 0

\* lines 82-87
sample_value(oc, t) ==
    CASE oc = "InProgress" -> "unreachable"
      [] (oc = "Win" /\ t = "PlayerOne") \/ (oc = "Loss" /\ t = "PlayerTwo") -> 1
      [] (oc = "Win" /\ t = "PlayerTwo") \/ (oc = "Loss" /\ t = "PlayerOne") -> -1
      [] oc = "Draw" -> 0

\* variant: GameStarted leaves the pending buffer as it is
SampleRunnerEventSink_emit_keeping_pending(event, pending, use_sym) ==
    IF event.context = None THEN [pending |-> pending, out |-> <<>>]
    ELSE CASE event.kind = "PositionEvaluated" ->
                [pending |-> pending \o position_evaluated_entries(
                                 unwrap(event.context).game, unwrap(event.payload), use_sym),
                 out |-> <<>>]
           [] event.kind = "GameFinished" ->
                [pending |-> <<>>,
                 out |-> [i \in 1..Len(pending) |->
                            [state |-> pending[i].state,
                             policy |-> pending[i].policy,
                             value |-> sample_value(unwrap(event.payload),
                                                    unwrap(event.context).turn)]]]
           [] OTHER ->
                [pending |-> pending, out |-> <<>>]

\* SampleRunnerEventSink::emit: the pending buffer afterwards and the Samples
\* handed to the downstream sink, in order
SampleRunnerEventSink_emit(event, pending, use_sym) ==
    IF event.context = None THEN [pending |-> pending, out |-> <<>>]
    ELSE CASE event.kind = "GameStarted" ->
                [pending |-> <<>>, out |-> <<>>]
           [] event.kind = "PositionEvaluated" ->
                [pending |-> pending \o position_evaluated_entries(
                                 unwrap(event.context).game, unwrap(event.payload), use_sym),
                 out |-> <<>>]
           [] event.kind = "GameFinished" ->
                [pending |-> <<>>,
                 out |-> [i \in 1..Len(pending) |->
                            [state |-> pending[i].state,
                             policy |-> pending[i].policy,
                             value |-> sample_value(unwrap(event.payload), unwrap(event.context).turn)]]]
           [] OTHER ->
                [pending |-> pending, out |-> <<>>]

(***************************************************************************)
(* Observation of the event stream (history of what was emitted)           *)
(***************************************************************************)
(***************************************************************************)
(* core/runner/statistics_runner_event_sink.rs                             *)
(***************************************************************************)
\* lines 16-23
StatisticsRunnerEventSink_new ==
    [total_games |-> 0, player_1_wins |-> 0, player_2_wins |-> 0, draws |-> 0,
     panicked |-> FALSE]

\* variant: a Loss is credited to the side in the context
StatisticsRunnerEventSink_emit_crediting_mover(self, event) ==
    IF self.panicked \/ event.kind # "GameFinished" THEN self
    ELSE IF event.context = None THEN [self EXCEPT !.panicked = TRUE]
    ELSE LET outcome_ == unwrap(event.payload)
             turn_ == unwrap(event.context).turn
             counted == [self EXCEPT !.total_games = @ + 1]
         IN CASE outcome_ \in {"Win", "Loss"} /\ turn_ = "PlayerOne" ->
                    [counted EXCEPT !.player_1_wins = @ + 1]
              [] outcome_ \in {"Win", "Loss"} /\ turn_ = "PlayerTwo" ->
                    [counted EXCEPT !.player_2_wins = @ + 1]
              [] outcome_ = "Draw" -> [counted EXCEPT !.draws = @ + 1]
              [] OTHER -> counted

\* lines 26-69: only GameFinished changes the counters (RunnerFinished prints
\* them); a GameFinished without context panics in expect (line 32)
StatisticsRunnerEventSink_emit(self, event) ==
    IF self.panicked \/ event.kind # "GameFinished" THEN self
    ELSE IF event.context = None THEN [self EXCEPT !.panicked = TRUE]
    ELSE LET outcome_ == unwrap(event.payload)
             turn_ == unwrap(event.context).turn
             counted == [self EXCEPT !.total_games = @ + 1]
         IN CASE (outcome_ = "Win" /\ turn_ = "PlayerOne")
                   \/ (outcome_ = "Loss" /\ turn_ = "PlayerTwo") ->
                    [counted EXCEPT !.player_1_wins = @ + 1]
              [] (outcome_ = "Win" /\ turn_ = "PlayerTwo")
                   \/ (outcome_ = "Loss" /\ turn_ = "PlayerOne") ->
                    [counted EXCEPT !.player_2_wins = @ + 1]
              [] outcome_ = "Draw" -> [counted EXCEPT !.draws = @ + 1]
              [] OTHER -> counted

hist_init ==
    [tick |-> 0,
     first_kind |-> "",
     runner_started |-> 0,
     runner_finished |-> 0,
     game_started_seen |-> FALSE,
     finished_games |-> <<>>,
     flushed_since_start |-> FALSE,
     position_evaluated |-> 0,
     pushed_since_start |-> <<>>,
     pushed_since_reset |-> <<>>,
     movers |-> <<>>,
     seat_marks |-> [t \in Turn |-> {}]]

observe(h, event, pending_before, pending_after) ==
    LET k == event.kind
        pushed == IF k = "PositionEvaluated"
                     THEN SubSeq(pending_after, Len(pending_before) + 1, Len(pending_after))
                     ELSE <<>>
    IN [tick |-> 1 - h.tick,
        first_kind |-> IF h.first_kind = "" THEN k ELSE h.first_kind,
        runner_started |-> h.runner_started + (IF k = "RunnerStarted" THEN 1 ELSE 0),
        runner_finished |-> h.runner_finished + (IF k = "RunnerFinished" THEN 1 ELSE 0),
        game_started_seen |-> h.game_started_seen \/ k = "GameStarted",
        finished_games |-> IF k = "GameFinished" /\ event.context # None
                              THEN Append(h.finished_games, unwrap(event.context).game_number)
                              ELSE h.finished_games,
        flushed_since_start |-> IF k = "GameStarted" THEN FALSE
                                ELSE h.flushed_since_start \/ k = "GameFinished",
        position_evaluated |-> IF k = "GameStarted" THEN 0
                               ELSE h.position_evaluated
                                        + (IF k = "PositionEvaluated" THEN 1 ELSE 0),
        pushed_since_start |-> IF k = "GameStarted" THEN <<>>
                               ELSE h.pushed_since_start \o pushed,
        pushed_since_reset |-> IF k \in {"GameStarted", "GameFinished"} THEN <<>>
                               ELSE h.pushed_since_reset \o pushed,
        movers |-> IF k = "GameStarted" THEN <<>>
                   ELSE IF k = "PositionEvaluated"
                        THEN h.movers \o [i \in 1..Len(pushed) |-> unwrap(event.context).turn]
                        ELSE h.movers,
        seat_marks |-> IF k = "GameStarted" THEN [t \in Turn |-> {}]
                       ELSE IF k = "ActionApplied" /\ event.context # None
                            THEN [h.seat_marks EXCEPT ![unwrap(event.context).turn] = @ \cup {unwrap(event.payload)}]
                            ELSE h.seat_marks]

\* sink.emit(event): the sample sink and the statistics sink handle the event
\* synchronously
Emit(event) ==
    LET r == SampleRunnerEventSink_emit(event, pending_samples, use_symmetries)
    IN /\ pending_samples' = r.pending
       /\ sink_out' = r.out
       /\ statistics' = StatisticsRunnerEventSink_emit(statistics, event)
       /\ last_event' = event
       /\ hist' = observe(hist, event, pending_samples, r.pending)

NoEmit == UNCHANGED <<pending_samples, sink_out, statistics, last_event, hist>>

(***************************************************************************)
(* core/runner/runner.rs: Runner::run                                      *)
(***************************************************************************)
PlayerKinds == {"mcts", "random"}

\* a Player returns some legal action; the model tries the first and the last
CandidateActions(actions) == {actions[1], actions[Len(actions)]}

\* core/player.rs Choice: an MCTS player attaches the search evaluation
\* (here: all visits on the chosen action), RandomPlayer attaches none
choose_action(kind, g, action) ==
    [action |-> action,
     evaluation |-> IF kind = "mcts"
                       THEN Some([policy |-> <<[action |-> action, prior |-> Fraction(1, 1)]>>, value |-> 0])
                       ELSE None]

Context == Some(RunnerEventContext(game_number, game, turn_number, turn))

\* variant: the game is cut one turn later
max_turns_exceeded_late == max_turns # None /\ turn_number > unwrap(max_turns) + 1

\* lines 123-124
max_turns_exceeded == max_turns # None /\ turn_number > unwrap(max_turns)

\* DirichletNoise { alpha, epsilon } as configured for self-play
DirichletNoise == [alpha |-> <<3, 10>>, epsilon |-> <<1, 4>>]

NoEvaluation == [policy |-> <<>>, value |-> 0]
NoPrediction == [weights |-> <<>>, value |-> 0]
NoOutcome == [policy |-> <<>>, value |-> 0, panicked |-> FALSE]
NoResult == [evaluation |-> NoEvaluation, action |-> 0, panicked |-> FALSE]

\* no search in progress
SearchIdle ==
    /\ s_pc = "idle"
    /\ root_game = TicTacToe_new
    /\ simulations = 0
    /\ expander = "random"
    /\ temperature = 0
    /\ dirichlet_noise = None
    /\ sims_done = 0
    /\ tree = [nodes |-> <<>>, root_index |-> 0, game |-> TicTacToe_new]
    /\ checkpoint = create_checkpoint(TicTacToe_new)
    /\ node_index = 0
    /\ evaluation = NoEvaluation
    /\ value = 0
    /\ result = NoResult
    /\ leaf_visits = <<>>
    /\ raw_evaluation = NoEvaluation

\* no evaluator call in progress
EvaluatorIdle ==
    /\ e_pc = "idle"
    /\ e_kind = "rollout"
    /\ e_game = TicTacToe_new
    /\ e_clone = TicTacToe_new
    /\ e_real = TicTacToe_new
    /\ e_plies = 0
    /\ e_prediction = NoPrediction
    /\ e_result = NoOutcome

\* no pair of drivers under comparison
SeedIdle ==
    /\ drivers = <<>>
    /\ evaluator_kind = "rollout"
    /\ predictor = "none"

\* no game of boop under evaluation
BoopIdle ==
    /\ b_pc = "idle"
    /\ b_game = Boop_new
    /\ b_clone = Boop_new
    /\ b_plies = 0
    /\ b_steps = 0
    /\ b_result = NoOutcome

\* no game object driven by hand
ProtocolIdle ==
    /\ g_pc = "idle"
    /\ g_kind = "tic_tac_toe"
    /\ g_tic_tac_toe = TicTacToe_new
    /\ g_boop = Boop_new
    /\ g_plies = 0

\* no call under observation
CallIdle ==
    /\ f_pc = "idle"
    /\ f_args = <<>>
    /\ f_result = <<>>

RestIdle == ProtocolIdle /\ CallIdle

AuxIdle == EvaluatorIdle /\ SeedIdle /\ BoopIdle /\ RestIdle

\* no run in progress
RunnerIdle ==
    /\ games = 0
    /\ max_turns = None
    /\ players = [t \in Turn |-> "random"]
    /\ game_number = 0
    /\ game = TicTacToe_new
    /\ turn_number = 0
    /\ turn = "PlayerOne"
    /\ choice = [action |-> 0, evaluation |-> None]
    /\ turn_complete = FALSE

SinkEmpty ==
    /\ pending_samples = <<>>
    /\ sink_out = <<>>
    /\ statistics = StatisticsRunnerEventSink_new
    /\ last_event = RunnerEvent("", None, None)
    /\ hist = hist_init
    /\ fed = 0

Init ==
    /\ pc = "start"
    /\ games \in 0..MaxGames
    /\ max_turns \in {None} \cup {Some(m) : m \in 0..MaxTurnsCap}
    /\ players \in [Turn -> PlayerKinds]
    /\ use_symmetries \in BOOLEAN
    /\ game_number = 0
    /\ game = TicTacToe_new
    /\ turn_number = 0
    /\ turn = "PlayerOne"
    /\ choice = [action |-> 0, evaluation |-> None]
    /\ turn_complete = FALSE
    /\ pending_samples = <<>>
    /\ sink_out = <<>>
    /\ statistics = StatisticsRunnerEventSink_new
    /\ last_event = RunnerEvent("", None, None)
    /\ hist = hist_init
    /\ fed = 0
    /\ SearchIdle
    /\ AuxIdle

\* lines 55-58
RunnerStart ==
    /\ pc = "start"
    /\ Emit(RunnerEvent("RunnerStarted", None, None))
    /\ pc' = "next_game"
    /\ UNCHANGED <<games, max_turns, players, game_number, game, turn_number, turn,
                   choice, turn_complete, use_symmetries, fed, search_vars, aux_vars>>

\* variant: the GameStarted context does not carry the loop's game number
GameStart_without_number ==
    /\ pc = "next_game"
    /\ game_number < games
    /\ game' = TicTacToe_new
    /\ turn_number' = 0
    /\ turn' = IF game_number % 2 = 0 THEN "PlayerOne" ELSE "PlayerTwo"
    /\ Emit(RunnerEvent("GameStarted", None,
                        Some(RunnerEventContext(0, game', turn_number', turn'))))
    /\ pc' = "turn_started"
    /\ UNCHANGED <<games, max_turns, players, game_number, choice, turn_complete,
                   use_symmetries, fed, search_vars, aux_vars>>

\* lines 60-79
GameStart ==
    /\ pc = "next_game"
    /\ game_number < games
    /\ game' = TicTacToe_new
    /\ turn_number' = 0
    /\ turn' = IF game_number % 2 = 0 THEN "PlayerOne" ELSE "PlayerTwo"
    /\ Emit(RunnerEvent("GameStarted", None,
                        Some(RunnerEventContext(game_number, game', turn_number', turn'))))
    /\ pc' = "turn_started"
    /\ UNCHANGED <<games, max_turns, players, game_number, choice, turn_complete,
                   use_symmetries, fed, search_vars, aux_vars>>

\* lines 81-89
FirstTurnStarted ==
    /\ pc = "turn_started"
    /\ Emit(RunnerEvent("TurnStarted", None, Context))
    /\ pc' = "choose"
    /\ UNCHANGED <<games, max_turns, players, game_number, game, turn_number, turn,
                   choice, turn_complete, use_symmetries, fed, search_vars, aux_vars>>

\* lines 92-95
ChooseAction ==
    /\ pc = "choose"
    /\ get_possible_actions(game) # <<>>
    /\ \E action \in CandidateActions(get_possible_actions(game)) :
          choice' = choose_action(players[turn], game, action)
    /\ pc' = IF choice'.evaluation # None THEN "position_evaluated" ELSE "apply"
    /\ NoEmit
    /\ UNCHANGED <<games, max_turns, players, game_number, game, turn_number, turn,
                   turn_complete, use_symmetries, fed, search_vars, aux_vars>>

\* lines 97-107
PositionEvaluated ==
    /\ pc = "position_evaluated"
    /\ Emit(RunnerEvent("PositionEvaluated", choice.evaluation, Context))
    /\ pc' = "apply"
    /\ UNCHANGED <<games, max_turns, players, game_number, game, turn_number, turn,
                   choice, turn_complete, use_symmetries, fed, search_vars, aux_vars>>

\* lines 109-121
ActionApplied ==
    /\ pc = "apply"
    /\ LET r == apply_action(game, choice.action)
       IN /\ game' = r.game
          /\ turn_complete' = r.turn_complete
    /\ Emit(RunnerEvent("ActionApplied", Some(choice.action),
                        Some(RunnerEventContext(game_number, game', turn_number, turn))))
    /\ pc' = "after_action"
    /\ UNCHANGED <<games, max_turns, players, game_number, turn_number, turn, choice,
                   use_symmetries, fed, search_vars, aux_vars>>

\* lines 123-139
GameFinishedMaxTurns ==
    /\ pc = "after_action"
    /\ max_turns_exceeded
    /\ Emit(RunnerEvent("GameFinished", Some("Draw"), Context))
    /\ game_number' = game_number + 1
    /\ pc' = "next_game"
    /\ UNCHANGED <<games, max_turns, players, game, turn_number, turn, choice,
                   turn_complete, use_symmetries, fed, search_vars, aux_vars>>

\* variant: a finished game is always reported as a draw
GameFinishedOutcome_reporting_draw ==
    /\ pc = "after_action"
    /\ ~max_turns_exceeded
    /\ outcome(game) # "InProgress"
    /\ Emit(RunnerEvent("GameFinished", Some("Draw"), Context))
    /\ game_number' = game_number + 1
    /\ pc' = "next_game"
    /\ UNCHANGED <<games, max_turns, players, game, turn_number, turn, choice,
                   turn_complete, use_symmetries, fed, search_vars, aux_vars>>

\* lines 141-156
GameFinishedOutcome ==
    /\ pc = "after_action"
    /\ ~max_turns_exceeded
    /\ outcome(game) # "InProgress"
    /\ Emit(RunnerEvent("GameFinished", Some(outcome(game)), Context))
    /\ game_number' = game_number + 1
    /\ pc' = "next_game"
    /\ UNCHANGED <<games, max_turns, players, game, turn_number, turn, choice,
                   turn_complete, use_symmetries, fed, search_vars, aux_vars>>

\* variant: the turn ends without a TurnFinished event
TurnFinished_silent ==
    /\ pc = "after_action"
    /\ ~max_turns_exceeded
    /\ outcome(game) = "InProgress"
    /\ NoEmit
    /\ pc' = IF turn_complete THEN "end_turn" ELSE "choose"
    /\ UNCHANGED <<games, max_turns, players, game_number, game, turn_number, turn,
                   choice, turn_complete, use_symmetries, fed, search_vars, aux_vars>>

\* lines 158-167 (and the fall-through to the next iteration of the loop)
TurnFinished ==
    /\ pc = "after_action"
    /\ ~max_turns_exceeded
    /\ outcome(game) = "InProgress"
    /\ IF turn_complete
          THEN /\ Emit(RunnerEvent("TurnFinished", None, Context))
               /\ pc' = "end_turn"
          ELSE /\ NoEmit
               /\ pc' = "choose"
    /\ UNCHANGED <<games, max_turns, players, game_number, game, turn_number, turn,
                   choice, turn_complete, use_symmetries, fed, search_vars, aux_vars>>

\* variant: TurnStarted is emitted with the context of the turn that ended
TurnStarted_stale ==
    /\ pc = "end_turn"
    /\ game' = end_turn(game)
    /\ turn' = advance(turn)
    /\ turn_number' = turn_number + 1
    /\ Emit(RunnerEvent("TurnStarted", None, Context))
    /\ pc' = "choose"
    /\ UNCHANGED <<games, max_turns, players, game_number, choice, turn_complete,
                   use_symmetries, fed, search_vars, aux_vars>>

\* lines 169-183
TurnStarted ==
    /\ pc = "end_turn"
    /\ game' = end_turn(game)
    /\ turn' = advance(turn)
    /\ turn_number' = turn_number + 1
    /\ Emit(RunnerEvent("TurnStarted", None,
                        Some(RunnerEventContext(game_number, game', turn_number', turn'))))
    /\ pc' = "choose"
    /\ UNCHANGED <<games, max_turns, players, game_number, choice, turn_complete,
                   use_symmetries, fed, search_vars, aux_vars>>

\* lines 187-190
RunnerFinish ==
    /\ pc = "next_game"
    /\ game_number >= games
    /\ Emit(RunnerEvent("RunnerFinished", None, None))
    /\ pc' = "done"
    /\ UNCHANGED <<games, max_turns, players, game_number, game, turn_number, turn,
                   choice, turn_complete, use_symmetries, fed, search_vars, aux_vars>>

Next ==
    \/ RunnerStart
    \/ GameStart
    \/ FirstTurnStarted
    \/ ChooseAction
    \/ PositionEvaluated
    \/ ActionApplied
    \/ GameFinishedMaxTurns
    \/ GameFinishedOutcome
    \/ TurnFinished
    \/ TurnStarted
    \/ RunnerFinish

Spec == Init /\ [][Next]_vars

(***************************************************************************)
(* The sample sink on its own: runner events fed in any order              *)
(***************************************************************************)
InputGames == {TicTacToe_new, [player_marks |-> {4}, opponent_marks |-> {0}]}

InputContext(g, t) == Some(RunnerEventContext(0, g, 0, t))

EventInputs ==
    {RunnerEvent("RunnerStarted", None, None), RunnerEvent("RunnerFinished", None, None)}
    \cup {RunnerEvent(k, None, InputContext(TicTacToe_new, "PlayerOne")) :
            k \in {"GameStarted", "TurnStarted", "TurnFinished"}}
    \cup {RunnerEvent("ActionApplied", Some(1), InputContext(TicTacToe_new, "PlayerOne"))}
    \cup {RunnerEvent("PositionEvaluated",
                      choose_action("mcts", g, get_possible_actions(g)[1]).evaluation,
                      InputContext(g, "PlayerOne")) : g \in InputGames}
    \cup {RunnerEvent("GameFinished", Some(oc), InputContext(TicTacToe_new, t)) :
            oc \in Outcome \ {"InProgress"}, t \in Turn}

SinkInit ==
    /\ pc = "sink"
    /\ RunnerIdle
    /\ use_symmetries \in BOOLEAN
    /\ SinkEmpty
    /\ SearchIdle
    /\ AuxIdle

Feed ==
    /\ pc = "sink"
    /\ fed < MaxEvents
    /\ \E event \in EventInputs : Emit(event)
    /\ fed' = fed + 1
    /\ UNCHANGED <<runner_vars, use_symmetries, search_vars, aux_vars>>

SinkNext == Feed

SinkSpec == SinkInit /\ [][SinkNext]_vars

(***************************************************************************)
(* player/mcts/tree.rs                                                     *)
(***************************************************************************)
Node(action, t, parent_index, unexplored_actions, prior) ==
    [action |-> action, turn |-> t,
     parent_index |-> parent_index, child_indices |-> <<>>,
     visits |-> 0, total_value |-> 0, prior |-> prior,
     unexplored_actions |-> unexplored_actions]

\* arena indices are 0-based as in the code
NodeAt(nodes, index) == nodes[index + 1]

Tree_new(g) ==
    [nodes |-> <<Node(None, "PlayerOne", None, get_possible_actions(g), Fraction(0, 1))>>,
     root_index |-> 0,
     game |-> g]

(***************************************************************************)
(* player/mcts/scorer/ucb1.rs                                              *)
(***************************************************************************)
\* f32::INFINITY: above every finite score
INFINITY == 1000000000

\* ln(n) * 10^6 for the visit counts the bounded searches reach
LnMicro == <<0, 693147, 1098612, 1386294, 1609438, 1791759, 1945910, 2079442,
             2197225, 2302585, 2397895, 2484907>>

RECURSIVE isqrt_between(_, _, _)
isqrt_between(n, lo, hi) ==
    IF lo >= hi THEN lo
    ELSE LET mid == (lo + hi + 1) \div 2
         IN IF mid * mid <= n THEN isqrt_between(n, mid, hi)
                              ELSE isqrt_between(n, lo, mid - 1)

isqrt(n) == isqrt_between(n, 0, 40000)

\* Ucb1Scorer::score in units of 10^-4 (c = SQRT_2 is folded into the root)
Ucb1Scorer_score(parent, child) ==
    IF child.visits = 0 THEN INFINITY
    ELSE LET exploitation == (child.total_value * 10000) \div child.visits
             exploration == isqrt((2 * LnMicro[parent.visits] * 100) \div child.visits)
         IN exploitation + exploration

(***************************************************************************)
(* player/mcts/evaluator/rollout.rs                                        *)
(***************************************************************************)
outcome_value(oc) ==
    CASE oc = "Win" -> 1
      [] oc = "Loss" -> -1
      [] oc = "Draw" -> 0
      [] oc = "InProgress" -> "unreachable"

\* RolloutEvaluator::rollout: the values the random playout can return
RECURSIVE rollout(_)
rollout(g) ==
    LET actions == get_possible_actions(g)
    IN IF actions = <<>> THEN {outcome_value(outcome(g))}
       ELSE UNION {rollout(apply_action(g, actions[i]).game) : i \in 1..Len(actions)}

\* RolloutEvaluator::evaluate: the Evaluations it can return
RolloutEvaluator_evaluate(g) ==
    IF outcome(g) # "InProgress"
       THEN {[policy |-> <<>>, value |-> outcome_value(outcome(g))]}
       ELSE LET actions == get_possible_actions(g)
                policy == [i \in 1..Len(actions) |->
                              [action |-> actions[i], prior |-> Fraction(1, Len(actions))]]
            IN {[policy |-> policy, value |-> v] : v \in rollout(g)}

(***************************************************************************)
(* player/mcts/expander/random.rs, complete.rs                             *)
(***************************************************************************)
\* Vec::swap_remove with a 0-based index
swap_remove(s, index) ==
    LET last == Len(s)
    IN [i \in 1..(last - 1) |-> IF i = index + 1 THEN s[last] ELSE s[i]]

\* RandomExpander::expand: the node afterwards and the returned items, for
\* the index drawn by gen_range
\* variant: the drawn action stays in unexplored_actions
RandomExpander_expand_keeping_action(node, ev, action_index) ==
    IF node.unexplored_actions = <<>> THEN [node |-> node, expansion |-> <<>>]
    ELSE [node |-> node,
          expansion |-> <<[action |-> node.unexplored_actions[action_index + 1],
                           prior |-> Fraction(1, 1)]>>]

RandomExpander_expand(node, ev, action_index) ==
    IF node.unexplored_actions = <<>> THEN [node |-> node, expansion |-> <<>>]
    ELSE [node |-> [node EXCEPT !.unexplored_actions = swap_remove(@, action_index)],
          expansion |-> <<[action |-> node.unexplored_actions[action_index + 1],
                           prior |-> Fraction(1, 1)]>>]

CompleteExpander_expand(node, ev) ==
    [node |-> [node EXCEPT !.unexplored_actions = <<>>], expansion |-> ev.policy]

\* the results the configured expander can produce
Expander_expand(kind, node, ev) ==
    IF kind = "complete" THEN {CompleteExpander_expand(node, ev)}
    ELSE IF node.unexplored_actions = <<>> THEN {RandomExpander_expand(node, ev, 0)}
    ELSE {RandomExpander_expand(node, ev, k) : k \in 0..(Len(node.unexplored_actions) - 1)}

(***************************************************************************)
(* player/mcts/mcts.rs                                                     *)
(***************************************************************************)
\* variant: the first item is taken whatever its score
max_by_first_item(best, rest) == best

\* Iterator::max_by over <<item, score>> pairs: the last maximal item wins
RECURSIVE max_by(_, _)
max_by(best, rest) ==
    IF rest = <<>> THEN best
    ELSE max_by(IF best[2] > Head(rest)[2] THEN best ELSE Head(rest), Tail(rest))

\* Mcts::select: the node reached and tree.game after the applied actions
RECURSIVE select(_, _, _)
select(nodes, g, index) ==
    LET node == NodeAt(nodes, index)
    IN IF node.child_indices = <<>> \/ node.unexplored_actions # <<>>
          THEN [node_index |-> index, game |-> g]
          ELSE LET scored == [i \in 1..Len(node.child_indices) |->
                                 <<node.child_indices[i],
                                   Ucb1Scorer_score(node, NodeAt(nodes, node.child_indices[i]))>>]
                   child_index == max_by(Head(scored), Tail(scored))[1]
                   action == NodeAt(nodes, child_index).action
               IN select(nodes,
                         IF action # None THEN apply_action(g, unwrap(action)).game ELSE g,
                         child_index)

\* variant: the child is not added to its parent's children
push_child_unlinked(nodes, parent, child_node) == Append(nodes, child_node)

\* lines 172-175: append the child to the arena and to its parent's children
push_child(nodes, parent, child_node) ==
    LET child_index == Len(nodes)
    IN [Append(nodes, child_node) EXCEPT ![parent + 1].child_indices = Append(@, child_index)]

\* variant: every child takes its parent's turn
RECURSIVE add_children_sharing_turn(_, _, _)
add_children_sharing_turn(t, index, expansion) ==
    IF expansion = <<>> THEN t
    ELSE LET item == Head(expansion)
             cp == create_checkpoint(t.game)
             applied == apply_action(t.game, item.action)
             after == IF applied.turn_complete THEN end_turn(applied.game) ELSE applied.game
             child_node == Node(Some(item.action), NodeAt(t.nodes, index).turn,
                                Some(index), get_possible_actions(after), item.prior)
         IN add_children_sharing_turn(
                [t EXCEPT !.game = restore_checkpoint(after, cp),
                          !.nodes = push_child(t.nodes, index, child_node)],
                index, Tail(expansion))

\* lines 147-176: materialise the expansion items as children of node `index`
RECURSIVE add_children(_, _, _)
add_children(t, index, expansion) ==
    IF expansion = <<>> THEN t
    ELSE LET item == Head(expansion)
             parent_turn == NodeAt(t.nodes, index).turn
             cp == create_checkpoint(t.game)
             applied == apply_action(t.game, item.action)
             after == IF applied.turn_complete THEN end_turn(applied.game) ELSE applied.game
             child_node == Node(Some(item.action),
                                IF applied.turn_complete THEN advance(parent_turn)
                                                         ELSE parent_turn,
                                Some(index), get_possible_actions(after), item.prior)
             restored == restore_checkpoint(after, cp)
         IN add_children([t EXCEPT !.game = restored,
                                   !.nodes = push_child(t.nodes, index, child_node)],
                         index, Tail(expansion))

\* a Dirichlet vector for a policy of n items (it sums to 1)
DirichletSample(n, k) == [i \in 1..n |-> Fraction(IF i = k THEN 2 ELSE 1, n + 1)]

\* the Dirichlet vectors that can be drawn for a policy of n items
DirichletSamples(n) == {DirichletSample(n, k) : k \in 1..2}

\* line 198: (1 - epsilon) * prior + epsilon * value
mix_prior(prior, epsilon, noise) ==
    Fraction((epsilon[2] - epsilon[1]) * prior[1] * noise[2] + epsilon[1] * noise[1] * prior[2],
             epsilon[2] * prior[2] * noise[2])

\* Mcts::apply_dirichlet_noise: the Evaluations it can leave behind
apply_dirichlet_noise(ev, noise) ==
    IF noise = None THEN {ev}
    ELSE IF Len(ev.policy) < 2 THEN {ev}
    ELSE {[ev EXCEPT !.policy = [i \in 1..Len(ev.policy) |->
                                    [action |-> ev.policy[i].action,
                                     prior |-> mix_prior(ev.policy[i].prior,
                                                         unwrap(noise).epsilon, sample[i])]]] :
             sample \in DirichletSamples(Len(ev.policy))}

\* lines 137-141: the value handed to backpropagate
backpropagated_value(t, index, ev) ==
    IF NodeAt(t.nodes, index).turn = NodeAt(t.nodes, t.root_index).turn
       THEN ev.value ELSE 0 - ev.value

\* variant: the sign alternates on the way up
RECURSIVE backpropagate_alternating(_, _, _)
backpropagate_alternating(nodes, index, v) ==
    LET updated == [nodes EXCEPT ![index + 1].visits = @ + 1,
                                 ![index + 1].total_value = @ + v]
        parent_index == NodeAt(nodes, index).parent_index
    IN IF parent_index # None
          THEN backpropagate_alternating(updated, unwrap(parent_index), 0 - v)
          ELSE updated

\* Mcts::backpropagate
RECURSIVE backpropagate(_, _, _)
backpropagate(nodes, index, v) ==
    LET updated == [nodes EXCEPT ![index + 1].visits = @ + 1,
                                 ![index + 1].total_value = @ + v]
        parent_index == NodeAt(nodes, index).parent_index
    IN IF parent_index # None THEN backpropagate(updated, unwrap(parent_index), v)
                              ELSE updated

RECURSIVE sum_visits(_, _)
sum_visits(nodes, indices) ==
    IF indices = <<>> THEN 0
    ELSE NodeAt(nodes, Head(indices)).visits + sum_visits(nodes, Tail(indices))

Max(a, b) == IF a >= b THEN a ELSE b

\* Mcts::evaluate: visit shares of the root's children
Mcts_evaluate(t) ==
    LET root == NodeAt(t.nodes, t.root_index)
        total_visits == sum_visits(t.nodes, root.child_indices)
        children == [i \in 1..Len(root.child_indices) |-> NodeAt(t.nodes, root.child_indices[i])]
    IN [policy |-> [i \in 1..Len(children) |->
                       [action |-> unwrap(children[i].action),
                        prior |-> Fraction(children[i].visits, Max(total_visits, 1))]],
        value |-> Fraction(root.total_value, Max(root.visits, 1))]

\* the outcome of a call that returns an action, and of one whose expect fails
Returned(action) == [action |-> action, panicked |-> FALSE]
Panicked == [action |-> 0, panicked |-> TRUE]

\* variant: the index of the chosen policy item is returned as the action
Mcts_choose_action_returning_index(ev, temp) ==
    IF temp = 0
       THEN IF ev.policy = <<>> THEN {Panicked}
            ELSE LET scored == [i \in 1..Len(ev.policy) |->
                                   <<i - 1, ev.policy[i].prior[1]>>]
                 IN {Returned(max_by(Head(scored), Tail(scored))[1])}
       ELSE LET positive == {i \in 1..Len(ev.policy) : ev.policy[i].prior[1] > 0}
            IN IF positive = {} THEN {Panicked}
               ELSE {Returned(i - 1) : i \in positive}

\* Mcts::choose_action: the outcomes it can have; with temperature > 0 the
\* WeightedIndex draws any item of positive weight and rejects all-zero weights
Mcts_choose_action(ev, temp) ==
    IF temp = 0
       THEN IF ev.policy = <<>> THEN {Panicked}
            ELSE LET scored == [i \in 1..Len(ev.policy) |->
                                   <<ev.policy[i].action, ev.policy[i].prior[1]>>]
                 IN {Returned(max_by(Head(scored), Tail(scored))[1])}
       ELSE LET positive == {i \in 1..Len(ev.policy) : ev.policy[i].prior[1] > 0}
            IN IF positive = {} THEN {Panicked}
               ELSE {Returned(ev.policy[i].action) : i \in positive}

\* positions handed to search: side to move is the `player` of the bitboards
RootPositions ==
    {[player_marks |-> {0, 1}, opponent_marks |-> {4, 5, 6}],
     [player_marks |-> {0, 1, 5}, opponent_marks |-> {4, 6, 8}],
     [player_marks |-> {0, 1, 5}, opponent_marks |-> {3, 4, 6, 8}],
     [player_marks |-> {0, 2, 3, 7}, opponent_marks |-> {1, 4, 5, 6}],
     [player_marks |-> {0, 1}, opponent_marks |-> {3, 4, 5}]}

SearchInit ==
    /\ pc = "search"
    /\ RunnerIdle
    /\ use_symmetries = FALSE
    /\ SinkEmpty
    /\ s_pc = "new"
    /\ root_game \in RootPositions
    /\ simulations \in 0..MaxSimulations
    /\ expander \in {"random", "complete"}
    /\ temperature \in {0, 1}
    /\ dirichlet_noise \in {None, Some(DirichletNoise)}
    /\ sims_done = 0
    /\ tree = [nodes |-> <<>>, root_index |-> 0, game |-> TicTacToe_new]
    /\ checkpoint = create_checkpoint(TicTacToe_new)
    /\ node_index = 0
    /\ evaluation = NoEvaluation
    /\ value = 0
    /\ result = NoResult
    /\ leaf_visits = <<>>
    /\ raw_evaluation = NoEvaluation
    /\ AuxIdle

search_frame == UNCHANGED <<runner_vars, sink_vars, obs_vars,
                            root_game, simulations, expander, temperature,
                            dirichlet_noise, aux_vars>>

\* line 72
TreeNew ==
    /\ s_pc = "new"
    /\ tree' = Tree_new(root_game)
    /\ leaf_visits' = <<0>>
    /\ s_pc' = "loop"
    /\ UNCHANGED <<sims_done, checkpoint, node_index, evaluation, value, result, raw_evaluation>>
    /\ search_frame

\* lines 74-75
SimulationBegin ==
    /\ s_pc = "loop"
    /\ sims_done < simulations
    /\ checkpoint' = create_checkpoint(tree.game)
    /\ s_pc' = "select"
    /\ UNCHANGED <<sims_done, tree, node_index, evaluation, value, result, raw_evaluation, leaf_visits>>
    /\ search_frame

\* line 77
Select ==
    /\ s_pc = "select"
    /\ LET r == select(tree.nodes, tree.game, tree.root_index)
       IN /\ node_index' = r.node_index
          /\ tree' = [tree EXCEPT !.game = r.game]
          /\ leaf_visits' = [leaf_visits EXCEPT ![r.node_index + 1] = @ + 1]
    /\ s_pc' = "expand"
    /\ UNCHANGED <<sims_done, checkpoint, evaluation, value, result, raw_evaluation>>
    /\ search_frame

\* variant: the noise is mixed in at every node, not only at the root
Expand_noise_everywhere ==
    /\ s_pc = "expand"
    /\ \E raw \in RolloutEvaluator_evaluate(tree.game) :
       \E ev \in apply_dirichlet_noise(raw, dirichlet_noise) :
       \E x \in Expander_expand(expander, NodeAt(tree.nodes, node_index), ev) :
          /\ raw_evaluation' = raw
          /\ evaluation' = ev
          /\ value' = backpropagated_value(tree, node_index, ev)
          /\ tree' = add_children([tree EXCEPT !.nodes[node_index + 1] = x.node],
                                  node_index, x.expansion)
    /\ leaf_visits' = leaf_visits \o [i \in 1..(Len(tree'.nodes) - Len(tree.nodes)) |-> 0]
    /\ s_pc' = "backpropagate"
    /\ UNCHANGED <<sims_done, checkpoint, node_index, result>>
    /\ search_frame

\* line 78 (Mcts::expand)
Expand ==
    /\ s_pc = "expand"
    /\ \E raw \in RolloutEvaluator_evaluate(tree.game) :
       \E ev \in (IF node_index = tree.root_index
                     THEN apply_dirichlet_noise(raw, dirichlet_noise) ELSE {raw}) :
       \E x \in Expander_expand(expander, NodeAt(tree.nodes, node_index), ev) :
          /\ raw_evaluation' = raw
          /\ evaluation' = ev
          /\ value' = backpropagated_value(tree, node_index, ev)
          /\ tree' = add_children([tree EXCEPT !.nodes[node_index + 1] = x.node],
                                  node_index, x.expansion)
    /\ leaf_visits' = leaf_visits \o [i \in 1..(Len(tree'.nodes) - Len(tree.nodes)) |-> 0]
    /\ s_pc' = "backpropagate"
    /\ UNCHANGED <<sims_done, checkpoint, node_index, result>>
    /\ search_frame

\* variant: only the selected node is updated, its ancestors are not
Backpropagate_leaf_only ==
    /\ s_pc = "backpropagate"
    /\ tree' = [tree EXCEPT !.nodes[node_index + 1].visits = @ + 1,
                            !.nodes[node_index + 1].total_value = @ + value]
    /\ s_pc' = "restore"
    /\ UNCHANGED <<sims_done, checkpoint, node_index, evaluation, value, result, leaf_visits,
                   raw_evaluation>>
    /\ search_frame

\* line 79
Backpropagate ==
    /\ s_pc = "backpropagate"
    /\ tree' = [tree EXCEPT !.nodes = backpropagate(tree.nodes, node_index, value)]
    /\ s_pc' = "restore"
    /\ UNCHANGED <<sims_done, checkpoint, node_index, evaluation, value, result, leaf_visits,
                   raw_evaluation>>
    /\ search_frame

\* line 81
SimulationEnd ==
    /\ s_pc = "restore"
    /\ tree' = [tree EXCEPT !.game = restore_checkpoint(tree.game, checkpoint)]
    /\ sims_done' = sims_done + 1
    /\ s_pc' = "loop"
    /\ UNCHANGED <<checkpoint, node_index, evaluation, value, result, raw_evaluation, leaf_visits>>
    /\ search_frame

\* lines 84-93
SearchReturn ==
    /\ s_pc = "loop"
    /\ sims_done >= simulations
    /\ LET ev == Mcts_evaluate(tree)
       IN \E chosen \in Mcts_choose_action(ev, temperature) :
             result' = [evaluation |-> ev, action |-> chosen.action,
                        panicked |-> chosen.panicked]
    /\ s_pc' = "returned"
    /\ UNCHANGED <<sims_done, tree, checkpoint, node_index, evaluation, value, leaf_visits,
                   raw_evaluation>>
    /\ search_frame

\* classic.rs lines 52-59 and runner.rs lines 97-107: the player hands the
\* evaluation back with its choice and the Runner emits PositionEvaluated,
\* which the sample sink buffers
Deliver ==
    /\ s_pc = "returned"
    /\ ~result.panicked
    /\ Emit(RunnerEvent("PositionEvaluated", Some(result.evaluation),
                        Some(RunnerEventContext(0, root_game, 0, "PlayerOne"))))
    /\ s_pc' = "delivered"
    /\ UNCHANGED <<runner_vars, use_symmetries, fed, aux_vars>>
    /\ UNCHANGED <<root_game, simulations, expander, temperature, dirichlet_noise,
                   sims_done, tree, checkpoint, node_index, evaluation, value, result,
                   leaf_visits, raw_evaluation>>

SearchNext ==
    \/ Deliver
    \/ TreeNew
    \/ SimulationBegin
    \/ Select
    \/ Expand
    \/ Backpropagate
    \/ SimulationEnd
    \/ SearchReturn

SearchSpec == SearchInit /\ [][SearchNext]_vars

(***************************************************************************)
(* player/mcts/evaluator: one call of Evaluator::evaluate, the rollout's   *)
(* loop taken one iteration at a time                                      *)
(***************************************************************************)
EvaluatorKinds == {"rollout", "neural_network"}

\* what NeuralNetwork::predict can answer: exp(policy_logits[id]) for every
\* action id, and a value
Predictions ==
    {[weights |-> [id \in 1..ACTION_COUNT |-> IF skew THEN 1 + (id % 2) ELSE 1],
      value |-> v] : skew \in BOOLEAN, v \in {-1, 0, 1}}

RECURSIVE sum_weights(_, _)
sum_weights(weights, actions) ==
    IF actions = <<>> THEN 0
    ELSE weights[ActionEncoder_encode(Head(actions)) + 1] + sum_weights(weights, Tail(actions))

\* NeuralNetworkEvaluator::evaluate for the prediction the network gives
NeuralNetworkEvaluator_evaluate(g, prediction) ==
    LET actions == get_possible_actions(g)
        total == sum_weights(prediction.weights, actions)
    IN [policy |-> [i \in 1..Len(actions) |->
                       [action |-> actions[i],
                        prior |-> Fraction(prediction.weights[ActionEncoder_encode(actions[i]) + 1],
                                           total)]],
        value |-> prediction.value]

\* the position searched is reached from the empty board by complete turns
\* (apply_action and end_turn, as Runner::run plays them) ...
EvalPlay ==
    /\ e_pc = "position"
    /\ get_possible_actions(e_game) # <<>>
    /\ \E action \in CandidateActions(get_possible_actions(e_game)) :
          LET applied == apply_action(e_game, action)
          IN e_game' = IF applied.turn_complete THEN end_turn(applied.game) ELSE applied.game
    /\ UNCHANGED <<e_pc, e_kind, e_clone, e_real, e_plies, e_prediction, e_result>>
    /\ UNCHANGED <<runner_vars, sink_vars, obs_vars, search_vars, seed_vars, boop_vars, rest_vars>>

\* ... and tree.game is reached from it by the actions Mcts::select applies
\* on the way down (mcts.rs lines 119-121)
EvalDescend ==
    /\ e_pc \in {"position", "descended"}
    /\ get_possible_actions(e_game) # <<>>
    /\ \E action \in CandidateActions(get_possible_actions(e_game)) :
          e_game' = apply_action(e_game, action).game
    /\ e_pc' = "descended"
    /\ UNCHANGED <<e_kind, e_clone, e_real, e_plies, e_prediction, e_result>>
    /\ UNCHANGED <<runner_vars, sink_vars, obs_vars, search_vars, seed_vars, boop_vars, rest_vars>>

\* self.evaluator.evaluate(&tree.game)
EvaluateCall ==
    /\ e_pc \in {"position", "descended"}
    /\ e_kind' \in EvaluatorKinds
    /\ e_prediction' \in IF e_kind' = "neural_network" THEN Predictions ELSE {NoPrediction}
    /\ e_pc' = "call"
    /\ UNCHANGED <<e_game, e_clone, e_real, e_plies, e_result>>
    /\ UNCHANGED <<runner_vars, sink_vars, obs_vars, search_vars, seed_vars, boop_vars, rest_vars>>

\* rollout.rs lines 58-70
RolloutEvaluateTerminal ==
    /\ e_pc = "call"
    /\ e_kind = "rollout"
    /\ outcome(e_game) # "InProgress"
    /\ e_result' = [policy |-> <<>>, value |-> outcome_value(outcome(e_game)),
                    panicked |-> FALSE]
    /\ e_pc' = "done"
    /\ UNCHANGED <<e_kind, e_game, e_clone, e_real, e_plies, e_prediction>>
    /\ UNCHANGED <<runner_vars, sink_vars, obs_vars, search_vars, seed_vars, boop_vars, rest_vars>>

\* rollout.rs lines 72-84 and 21: the uniform policy, then the clone
RolloutEvaluateBegin ==
    /\ e_pc = "call"
    /\ e_kind = "rollout"
    /\ outcome(e_game) = "InProgress"
    /\ LET actions == get_possible_actions(e_game)
       IN e_result' = [policy |-> [i \in 1..Len(actions) |->
                                     [action |-> actions[i],
                                      prior |-> Fraction(1, Len(actions))]],
                       value |-> 0, panicked |-> FALSE]
    /\ e_clone' = e_game
    /\ e_real' = e_game
    /\ e_plies' = 0
    /\ e_pc' = "rollout"
    /\ UNCHANGED <<e_kind, e_game, e_prediction>>
    /\ UNCHANGED <<runner_vars, sink_vars, obs_vars, search_vars, seed_vars, boop_vars, rest_vars>>

\* rollout.rs lines 24, 35-39: one random action; e_real is the same playout
\* with end_turn called after every action that completes a turn
RolloutStep ==
    /\ e_pc = "rollout"
    /\ get_possible_actions(e_clone) # <<>>
    /\ \E action \in SeqRange(get_possible_actions(e_clone)) :
          /\ e_clone' = apply_action(e_clone, action).game
          /\ e_real' = LET applied == apply_action(e_real, action)
                       IN IF applied.turn_complete THEN end_turn(applied.game)
                                                   ELSE applied.game
    /\ e_plies' = e_plies + 1
    /\ UNCHANGED <<e_pc, e_kind, e_game, e_prediction, e_result>>
    /\ UNCHANGED <<runner_vars, sink_vars, obs_vars, search_vars, seed_vars, boop_vars, rest_vars>>

\* rollout.rs lines 26-33
RolloutReturn ==
    /\ e_pc = "rollout"
    /\ get_possible_actions(e_clone) = <<>>
    /\ e_result' = IF outcome(e_clone) = "InProgress"
                      THEN [e_result EXCEPT !.panicked = TRUE]
                      ELSE [e_result EXCEPT !.value = outcome_value(outcome(e_clone))]
    /\ e_pc' = "done"
    /\ UNCHANGED <<e_kind, e_game, e_clone, e_real, e_plies, e_prediction>>
    /\ UNCHANGED <<runner_vars, sink_vars, obs_vars, search_vars, seed_vars, boop_vars, rest_vars>>

\* neural_network.rs lines 47-77
NeuralNetworkEvaluate ==
    /\ e_pc = "call"
    /\ e_kind = "neural_network"
    /\ LET ev == NeuralNetworkEvaluator_evaluate(e_game, e_prediction)
       IN e_result' = [policy |-> ev.policy, value |-> ev.value, panicked |-> FALSE]
    /\ e_pc' = "done"
    /\ UNCHANGED <<e_kind, e_game, e_clone, e_real, e_plies, e_prediction>>
    /\ UNCHANGED <<runner_vars, sink_vars, obs_vars, search_vars, seed_vars, boop_vars, rest_vars>>

EvaluatorInit ==
    /\ pc = "evaluator"
    /\ RunnerIdle
    /\ use_symmetries = FALSE
    /\ SinkEmpty
    /\ SearchIdle
    /\ SeedIdle
    /\ BoopIdle
    /\ RestIdle
    /\ e_pc = "position"
    /\ e_kind = "rollout"
    /\ e_game = TicTacToe_new
    /\ e_clone = TicTacToe_new
    /\ e_real = TicTacToe_new
    /\ e_plies = 0
    /\ e_prediction = NoPrediction
    /\ e_result = NoOutcome

EvaluatorNext ==
    \/ EvalPlay
    \/ EvalDescend
    \/ EvaluateCall
    \/ RolloutEvaluateTerminal
    \/ RolloutEvaluateBegin
    \/ RolloutStep
    \/ RolloutReturn
    \/ NeuralNetworkEvaluate

EvaluatorSpec == EvaluatorInit /\ [][EvaluatorNext]_vars

(***************************************************************************)
(* Seeding: two drivers of one configuration (player/mcts/mcts.rs lines    *)
(* 33-57 and the with_seed of each component).  A StdRng is a state in     *)
(* 0..RngStates-1; a draw reads the state and advances it.                 *)
(***************************************************************************)
\* StdRng::seed_from_u64
seed_from_u64(seed) == seed % RngStates

\* the generator after one draw
rng_next(state) == (state + 1) % RngStates

\* Rng::gen_range(0..n), SliceRandom::choose over n items
gen_range(state, n) == state % n

\* RolloutEvaluator::rollout with the evaluator's RNG in `state`
RECURSIVE rollout_seeded(_, _)
rollout_seeded(g, state) ==
    LET actions == get_possible_actions(g)
    IN IF actions = <<>> THEN [value |-> outcome_value(outcome(g)), rng |-> state]
       ELSE rollout_seeded(apply_action(g, actions[gen_range(state, Len(actions)) + 1]).game,
                           rng_next(state))

\* RandomNeuralNetwork::predict: logits and value drawn from the network's RNG
RandomNeuralNetwork_predict(state) ==
    [prediction |-> [weights |-> [id \in 1..ACTION_COUNT |-> 1 + ((id + state) % 2)],
                     value |-> (state % 3) - 1],
     rng |-> rng_next(state)]

\* OnnxNeuralNetwork: a fixed function of its input, no RNG
OnnxNeuralNetwork_predict(state) ==
    [prediction |-> [weights |-> [id \in 1..ACTION_COUNT |-> 1], value |-> 0],
     rng |-> state]

\* Evaluator::evaluate of the configured evaluator: the evaluation and the
\* RNGs afterwards
Evaluator_evaluate_seeded(kind, network, g, evaluator_rng, predictor_rng) ==
    IF kind = "rollout"
       THEN IF outcome(g) # "InProgress"
               THEN [evaluation |-> [policy |-> <<>>, value |-> outcome_value(outcome(g))],
                     evaluator_rng |-> evaluator_rng, predictor_rng |-> predictor_rng]
               ELSE LET actions == get_possible_actions(g)
                        played == rollout_seeded(g, evaluator_rng)
                    IN [evaluation |->
                            [policy |-> [i \in 1..Len(actions) |->
                                            [action |-> actions[i],
                                             prior |-> Fraction(1, Len(actions))]],
                             value |-> played.value],
                        evaluator_rng |-> played.rng, predictor_rng |-> predictor_rng]
       ELSE LET predicted == IF network = "random"
                                THEN RandomNeuralNetwork_predict(predictor_rng)
                                ELSE OnnxNeuralNetwork_predict(predictor_rng)
            IN [evaluation |-> NeuralNetworkEvaluator_evaluate(g, predicted.prediction),
                evaluator_rng |-> evaluator_rng, predictor_rng |-> predicted.rng]

\* Mcts::apply_dirichlet_noise with the driver's RNG in `state`
apply_dirichlet_noise_seeded(ev, noise, state) ==
    IF noise = None \/ Len(ev.policy) < 2 THEN [evaluation |-> ev, rng |-> state]
    ELSE LET sample == DirichletSample(Len(ev.policy), gen_range(state, 2) + 1)
         IN [evaluation |->
                 [ev EXCEPT !.policy = [i \in 1..Len(ev.policy) |->
                                           [action |-> ev.policy[i].action,
                                            prior |-> mix_prior(ev.policy[i].prior,
                                                                unwrap(noise).epsilon,
                                                                sample[i])]]],
             rng |-> rng_next(state)]

\* Expander::expand of the configured expander with the expander's RNG in `state`
Expander_expand_seeded(kind, node, ev, state) ==
    IF kind = "complete"
       THEN [expanded |-> CompleteExpander_expand(node, ev), rng |-> state]
    ELSE IF node.unexplored_actions = <<>>
       THEN [expanded |-> RandomExpander_expand(node, ev, 0), rng |-> state]
    ELSE [expanded |-> RandomExpander_expand(node, ev,
                           gen_range(state, Len(node.unexplored_actions))),
          rng |-> rng_next(state)]

\* the items of positive weight, in policy order
RECURSIVE positive_items(_)
positive_items(policy) ==
    IF policy = <<>> THEN <<>>
    ELSE IF Head(policy).prior[1] > 0 THEN <<Head(policy)>> \o positive_items(Tail(policy))
    ELSE positive_items(Tail(policy))

\* Mcts::choose_action with the driver's RNG in `state`
Mcts_choose_action_seeded(ev, temp, state) ==
    IF temp = 0
       THEN [chosen |-> CHOOSE c \in Mcts_choose_action(ev, temp) : TRUE, rng |-> state]
       ELSE LET positive == positive_items(ev.policy)
            IN IF positive = <<>> THEN [chosen |-> Panicked, rng |-> state]
               ELSE [chosen |-> Returned(positive[gen_range(state, Len(positive)) + 1].action),
                     rng |-> rng_next(state)]

\* Mcts::new: every RNG comes from the operating system's entropy
Mcts_new(entropy) ==
    [d_pc |-> "built", seed |-> None,
     rng |-> entropy, evaluator_rng |-> entropy, expander_rng |-> entropy,
     predictor_rng |-> entropy,
     tree |-> [nodes |-> <<>>, root_index |-> 0, game |-> TicTacToe_new],
     sims_done |-> 0, trace |-> <<>>, result |-> NoResult]

\* Mcts::with_seed: the driver's RNG, the evaluator's with_seed and the
\* expander's with_seed; NeuralNetworkEvaluator::with_seed and
\* CompleteExpander::with_seed return self unchanged
Mcts_with_seed(d, seed) ==
    [d EXCEPT !.seed = Some(seed),
              !.rng = seed_from_u64(seed),
              !.evaluator_rng = IF evaluator_kind = "rollout" THEN seed_from_u64(seed) ELSE @,
              !.expander_rng = IF expander = "random" THEN seed_from_u64(seed) ELSE @]

\* one iteration of the loop of Mcts::search (lines 74-82)
Mcts_simulate(d) ==
    LET t == d.tree
        cp == create_checkpoint(t.game)
        selected == select(t.nodes, t.game, t.root_index)
        index == selected.node_index
        t1 == [t EXCEPT !.game = selected.game]
        evaluated == Evaluator_evaluate_seeded(evaluator_kind, predictor, t1.game,
                                               d.evaluator_rng, d.predictor_rng)
        noised == IF index = t.root_index
                     THEN apply_dirichlet_noise_seeded(evaluated.evaluation,
                                                       dirichlet_noise, d.rng)
                     ELSE [evaluation |-> evaluated.evaluation, rng |-> d.rng]
        v == backpropagated_value(t1, index, noised.evaluation)
        x == Expander_expand_seeded(expander, NodeAt(t1.nodes, index),
                                    noised.evaluation, d.expander_rng)
        t2 == add_children([t1 EXCEPT !.nodes[index + 1] = x.expanded.node],
                           index, x.expanded.expansion)
        t3 == [t2 EXCEPT !.nodes = backpropagate(t2.nodes, index, v)]
    IN [d EXCEPT !.tree = [t3 EXCEPT !.game = restore_checkpoint(t3.game, cp)],
                 !.rng = noised.rng,
                 !.evaluator_rng = evaluated.evaluator_rng,
                 !.predictor_rng = evaluated.predictor_rng,
                 !.expander_rng = x.rng,
                 !.sims_done = @ + 1,
                 !.trace = Append(@, [node_index |-> index,
                                      expansion |-> x.expanded.expansion])]

seed_frame == UNCHANGED <<runner_vars, sink_vars, obs_vars, evaluator_vars, boop_vars,
                          rest_vars,
                          s_pc, root_game, simulations, expander, temperature, sims_done,
                          tree, checkpoint, node_index, evaluation, value, result,
                          leaf_visits, dirichlet_noise, raw_evaluation,
                          evaluator_kind, predictor>>

\* a freshly built driver is re-seeded
WithSeed(i) ==
    /\ drivers[i].d_pc = "built"
    /\ \E seed \in 0..MaxSeed :
          drivers' = [drivers EXCEPT ![i] = [Mcts_with_seed(@, seed) EXCEPT !.d_pc = "ready"]]
    /\ seed_frame

\* line 72: search starts with the tree of the root position
SeedTreeNew(i) ==
    /\ drivers[i].d_pc \in {"built", "ready"}
    /\ drivers' = [drivers EXCEPT ![i].tree = Tree_new(root_game), ![i].d_pc = "loop"]
    /\ seed_frame

\* lines 74-82
SeedSimulate(i) ==
    /\ drivers[i].d_pc = "loop"
    /\ drivers[i].sims_done < simulations
    /\ drivers' = [drivers EXCEPT ![i] = Mcts_simulate(@)]
    /\ seed_frame

\* lines 84-93
SeedReturn(i) ==
    /\ drivers[i].d_pc = "loop"
    /\ drivers[i].sims_done >= simulations
    /\ LET ev == Mcts_evaluate(drivers[i].tree)
           c == Mcts_choose_action_seeded(ev, temperature, drivers[i].rng)
       IN drivers' = [drivers EXCEPT ![i].result = [evaluation |-> ev,
                                                    action |-> c.chosen.action,
                                                    panicked |-> c.chosen.panicked],
                                     ![i].rng = c.rng,
                                     ![i].d_pc = "returned"]
    /\ seed_frame

\* the positions the two drivers search
SeedPositions ==
    {[player_marks |-> {0, 1}, opponent_marks |-> {4, 5, 6}],
     [player_marks |-> {0, 1, 5}, opponent_marks |-> {3, 4, 6, 8}]}

\* the evaluator of the configuration and, for the predictor-backed one,
\* its network
EvaluatorConfigurations ==
    {<<"rollout", "none">>, <<"neural_network", "random">>, <<"neural_network", "onnx">>}

SeedInit ==
    /\ pc = "seed"
    /\ RunnerIdle
    /\ use_symmetries = FALSE
    /\ SinkEmpty
    /\ EvaluatorIdle
    /\ BoopIdle
    /\ RestIdle
    /\ s_pc = "idle"
    /\ root_game \in SeedPositions
    /\ simulations \in 0..MaxSeedSimulations
    /\ expander \in {"random", "complete"}
    /\ temperature \in {0, 1}
    /\ dirichlet_noise \in {None, Some(DirichletNoise)}
    /\ sims_done = 0
    /\ tree = [nodes |-> <<>>, root_index |-> 0, game |-> TicTacToe_new]
    /\ checkpoint = create_checkpoint(TicTacToe_new)
    /\ node_index = 0
    /\ evaluation = NoEvaluation
    /\ value = 0
    /\ result = NoResult
    /\ leaf_visits = <<>>
    /\ raw_evaluation = NoEvaluation
    /\ \E c \in EvaluatorConfigurations : evaluator_kind = c[1] /\ predictor = c[2]
    /\ \E e1, e2 \in 0..(RngStates - 1) : drivers = <<Mcts_new(e1), Mcts_new(e2)>>

SeedNext ==
    \E i \in 1..2 :
        \/ WithSeed(i)
        \/ SeedTreeNew(i)
        \/ SeedSimulate(i)
        \/ SeedReturn(i)

SeedSpec == SeedInit /\ [][SeedNext]_vars

(***************************************************************************)
(* player/mcts/evaluator/rollout.rs on a game of boop: the position is     *)
(* reached by complete turns, then evaluate runs its playout on a clone.   *)
(* The actions drawn are those on the squares 0..MaxPlaySquare.            *)
(***************************************************************************)
PlaySquares == 0..MaxPlaySquare

\* the legal actions the model draws from
PlayableActions(g) ==
    LET actions == Boop_get_possible_actions(g)
    IN {actions[i] : i \in {j \in 1..Len(actions) :
                               \/ actions[j].kind = "Graduate"
                               \/ actions[j].index \in PlaySquares}}

boop_frame == UNCHANGED <<runner_vars, sink_vars, obs_vars, search_vars,
                          evaluator_vars, seed_vars, rest_vars>>

\* a ply of the game as Runner::run plays it (runner.rs lines 92-169):
\* apply_action, and end_turn when the turn is complete
BoopPlay ==
    /\ b_pc = "position"
    /\ b_plies < MaxBoopPlies
    /\ \E action \in PlayableActions(b_game) :
          LET applied == Boop_apply_action(b_game, action)
          IN b_game' = IF applied.turn_complete THEN Boop_end_turn(applied.game)
                                                ELSE applied.game
    /\ b_plies' = b_plies + 1
    /\ UNCHANGED <<b_pc, b_clone, b_steps, b_result>>
    /\ boop_frame

\* RolloutEvaluator::evaluate (lines 58-84) up to the call of rollout, and
\* line 21 of rollout: the playout works on a clone
BoopEvaluate ==
    /\ b_pc = "position"
    /\ IF Boop_outcome(b_game) # "InProgress"
          THEN /\ b_result' = [policy |-> <<>>,
                               value |-> outcome_value(Boop_outcome(b_game)),
                               panicked |-> FALSE]
               /\ b_pc' = "done"
               /\ UNCHANGED b_clone
          ELSE /\ LET actions == Boop_get_possible_actions(b_game)
                  IN b_result' = [policy |-> [i \in 1..Len(actions) |->
                                                 [action |-> actions[i],
                                                  prior |-> Fraction(1, Len(actions))]],
                                  value |-> 0, panicked |-> FALSE]
               /\ b_clone' = b_game
               /\ b_pc' = "rollout"
    /\ UNCHANGED <<b_game, b_plies, b_steps>>
    /\ boop_frame

\* rollout lines 23-40: one iteration that draws and applies an action
BoopRolloutStep ==
    /\ b_pc = "rollout"
    /\ b_steps < MaxRolloutSteps
    /\ Boop_get_possible_actions(b_clone) # <<>>
    /\ \E action \in PlayableActions(b_clone) :
          b_clone' = Boop_apply_action(b_clone, action).game
    /\ b_steps' = b_steps + 1
    /\ UNCHANGED <<b_pc, b_game, b_plies, b_result>>
    /\ boop_frame

\* rollout lines 26-33: no action is left; unreachable!() panics when the
\* outcome is InProgress
BoopRolloutReturn ==
    /\ b_pc = "rollout"
    /\ Boop_get_possible_actions(b_clone) = <<>>
    /\ b_result' = IF Boop_outcome(b_clone) = "InProgress"
                      THEN [b_result EXCEPT !.panicked = TRUE]
                      ELSE [b_result EXCEPT !.value = outcome_value(Boop_outcome(b_clone))]
    /\ b_pc' = "done"
    /\ UNCHANGED <<b_game, b_clone, b_plies, b_steps>>
    /\ boop_frame

BoopInit ==
    /\ pc = "boop"
    /\ RunnerIdle
    /\ use_symmetries = FALSE
    /\ SinkEmpty
    /\ SearchIdle
    /\ EvaluatorIdle
    /\ SeedIdle
    /\ RestIdle
    /\ b_pc = "position"
    /\ b_game = Boop_new
    /\ b_clone = Boop_new
    /\ b_plies = 0
    /\ b_steps = 0
    /\ b_result = NoOutcome

BoopNext ==
    \/ BoopPlay
    \/ BoopEvaluate
    \/ BoopRolloutStep
    \/ BoopRolloutReturn

BoopSpec == BoopInit /\ [][BoopNext]_vars

(***************************************************************************)
(* core/game.rs: a game object driven through the Game trait the way its   *)
(* callers are meant to: apply a legal action, and call end_turn exactly   *)
(* when apply_action returned true.  Tic-tac-toe is played with every      *)
(* legal action, boop with the actions on the squares 0..MaxPlaySquare.    *)
(***************************************************************************)
protocol_frame == UNCHANGED <<runner_vars, sink_vars, obs_vars, search_vars,
                              evaluator_vars, seed_vars, boop_vars, call_vars>>

\* tic_tac_toe.rs lines 157-184: get_possible_actions, apply_action
TicTacToeApply ==
    /\ g_pc = "act"
    /\ g_kind = "tic_tac_toe"
    /\ \E action \in SeqRange(get_possible_actions(g_tic_tac_toe)) :
          LET applied == apply_action(g_tic_tac_toe, action)
          IN /\ g_tic_tac_toe' = applied.game
             /\ g_pc' = IF applied.turn_complete THEN "end_turn" ELSE "act"
    /\ g_plies' = g_plies + 1
    /\ UNCHANGED <<g_kind, g_boop>>
    /\ protocol_frame

\* tic_tac_toe.rs lines 186-188
TicTacToeEndTurn ==
    /\ g_pc = "end_turn"
    /\ g_kind = "tic_tac_toe"
    /\ g_tic_tac_toe' = end_turn(g_tic_tac_toe)
    /\ g_pc' = "act"
    /\ UNCHANGED <<g_kind, g_boop, g_plies>>
    /\ protocol_frame

\* boop.rs lines 416-448: get_possible_actions, apply_action
BoopApply ==
    /\ g_pc = "act"
    /\ g_kind = "boop"
    /\ g_plies < MaxProtocolPlies
    /\ \E action \in PlayableActions(g_boop) :
          LET applied == Boop_apply_action(g_boop, action)
          IN /\ g_boop' = applied.game
             /\ g_pc' = IF applied.turn_complete THEN "end_turn" ELSE "act"
    /\ g_plies' = g_plies + 1
    /\ UNCHANGED <<g_kind, g_tic_tac_toe>>
    /\ protocol_frame

\* boop.rs lines 450-454
BoopEndTurn ==
    /\ g_pc = "end_turn"
    /\ g_kind = "boop"
    /\ g_boop' = Boop_end_turn(g_boop)
    /\ g_pc' = "act"
    /\ UNCHANGED <<g_kind, g_tic_tac_toe, g_plies>>
    /\ protocol_frame

ProtocolInit ==
    /\ pc = "protocol"
    /\ RunnerIdle
    /\ use_symmetries = FALSE
    /\ SinkEmpty
    /\ SearchIdle
    /\ EvaluatorIdle
    /\ SeedIdle
    /\ BoopIdle
    /\ CallIdle
    /\ g_pc = "act"
    /\ g_kind \in {"tic_tac_toe", "boop"}
    /\ g_tic_tac_toe = TicTacToe_new
    /\ g_boop = Boop_new
    /\ g_plies = 0

ProtocolNext ==
    \/ TicTacToeApply
    \/ TicTacToeEndTurn
    \/ BoopApply
    \/ BoopEndTurn

ProtocolSpec == ProtocolInit /\ [][ProtocolNext]_vars

(***************************************************************************)
(* player/mcts/temperature.rs and the configuration of a driver            *)
(* (player/mcts/mcts.rs, Mcts::new and its builders): a driver is built    *)
(* from options or with the builders, then search reads the temperature of *)
(* the turn.  Temperatures are whole numbers, the result an exact fraction.*)
(***************************************************************************)
Temperatures == 0..MaxTemperature

Constant(temperature_) ==
    [kind |-> "Constant", threshold |-> 0, hi |-> temperature_, lo |-> temperature_]

TemperatureSchedule ==
    {Constant(t) : t \in Temperatures}
    \cup [kind : {"Step", "Linear"}, threshold : 0..MaxThreshold,
          hi : Temperatures, lo : Temperatures]

\* temperature.rs lines 9-29
get_temperature(schedule, turn_number_) ==
    CASE schedule.kind = "Constant" -> Fraction(schedule.hi, 1)
      [] schedule.kind = "Step" ->
            IF turn_number_ < schedule.threshold THEN Fraction(schedule.hi, 1)
                                                 ELSE Fraction(schedule.lo, 1)
      [] schedule.kind = "Linear" ->
            IF turn_number_ >= schedule.threshold THEN Fraction(schedule.lo, 1)
            ELSE \* hi - (hi - lo) * (turn_number / threshold)
                 Fraction(schedule.hi * schedule.threshold
                              - (schedule.hi - schedule.lo) * turn_number_,
                          schedule.threshold)

\* mcts.rs lines 33-48: the options are stored as they come
Mcts_new_from_options(options) ==
    [dirichlet_noise |-> options.dirichlet_noise,
     temperature_schedule |-> options.temperature_schedule]

\* mcts.rs lines 59-63
with_dirichlet_noise(driver, noise) == [driver EXCEPT !.dirichlet_noise = Some(noise)]

\* mcts.rs lines 65-69
with_temperature_schedule(driver, schedule) ==
    [driver EXCEPT !.temperature_schedule = Some(schedule)]

\* mcts.rs lines 86-89
search_temperature(driver, turn_number_) ==
    IF driver.temperature_schedule = None THEN Fraction(1, 1)
    ELSE get_temperature(unwrap(driver.temperature_schedule), turn_number_)

configuration_frame == UNCHANGED <<runner_vars, sink_vars, obs_vars, search_vars,
                                   evaluator_vars, seed_vars, boop_vars, protocol_vars>>

NoOptions == [dirichlet_noise |-> None, temperature_schedule |-> None]

ConfigurationNew ==
    /\ f_pc = "options"
    /\ f_result' = [driver |-> Some(Mcts_new_from_options(
                                       IF f_args.builders THEN NoOptions ELSE f_args.options)),
                    temperature |-> None]
    /\ f_pc' = "built"
    /\ UNCHANGED f_args
    /\ configuration_frame

ConfigurationWithDirichletNoise ==
    /\ f_pc = "built"
    /\ f_args.builders
    /\ f_args.options.dirichlet_noise # None
    /\ unwrap(f_result.driver).dirichlet_noise = None
    /\ f_result' = [f_result EXCEPT !.driver =
                        Some(with_dirichlet_noise(unwrap(@),
                                                  unwrap(f_args.options.dirichlet_noise)))]
    /\ UNCHANGED <<f_pc, f_args>>
    /\ configuration_frame

ConfigurationWithTemperatureSchedule ==
    /\ f_pc = "built"
    /\ f_args.builders
    /\ f_args.options.temperature_schedule # None
    /\ unwrap(f_result.driver).temperature_schedule = None
    /\ f_result' = [f_result EXCEPT !.driver =
                        Some(with_temperature_schedule(unwrap(@),
                                 unwrap(f_args.options.temperature_schedule)))]
    /\ UNCHANGED <<f_pc, f_args>>
    /\ configuration_frame

\* Mcts::search, the temperature it hands to choose_action
ConfigurationSearch ==
    /\ f_pc = "built"
    /\ unwrap(f_result.driver) = f_args.options
    /\ f_result' = [f_result EXCEPT !.temperature =
                        Some(search_temperature(unwrap(f_result.driver), f_args.turn_number))]
    /\ f_pc' = "searched"
    /\ UNCHANGED f_args
    /\ configuration_frame

ConfigurationInit ==
    /\ pc = "configuration"
    /\ RunnerIdle
    /\ use_symmetries = FALSE
    /\ SinkEmpty
    /\ SearchIdle
    /\ EvaluatorIdle
    /\ SeedIdle
    /\ BoopIdle
    /\ ProtocolIdle
    /\ f_pc = "options"
    /\ f_args \in [options : [dirichlet_noise : {None, Some(DirichletNoise)},
                               temperature_schedule :
                                   {None} \cup {Some(schedule) : schedule \in TemperatureSchedule}],
                    builders : BOOLEAN,
                    turn_number : 0..MaxTurnNumber]
    /\ f_result = [driver |-> None, temperature |-> None]

ConfigurationNext ==
    \/ ConfigurationNew
    \/ ConfigurationWithDirichletNoise
    \/ ConfigurationWithTemperatureSchedule
    \/ ConfigurationSearch

ConfigurationSpec == ConfigurationInit /\ [][ConfigurationNext]_vars

(***************************************************************************)
(* game/tic_tac_toe/tic_tac_toe.rs, the Symmetric impl: one position is    *)
(* transformed, and so is each of its legal actions, as the sample sink    *)
(* does for its augmented samples.                                         *)
(***************************************************************************)
\* the positions with the player to move: the opponent has as many marks as
\* the player, or one more
Positions ==
    {g \in [player_marks : SUBSET Squares, opponent_marks : SUBSET Squares] :
        /\ g.player_marks \cap g.opponent_marks = {}
        /\ Cardinality(g.opponent_marks) - Cardinality(g.player_marks) \in {0, 1}}

symmetry_frame == UNCHANGED <<runner_vars, sink_vars, obs_vars, search_vars,
                              evaluator_vars, seed_vars, boop_vars, protocol_vars>>

\* lines 232-256: transform, and transform_action on every legal action
SymmetryTransform ==
    /\ f_pc = "position"
    /\ LET actions == get_possible_actions(f_args.game)
       IN f_result' = [game |-> transform(f_args.game, f_args.symmetry),
                       actions |-> [i \in 1..Len(actions) |->
                                       transform_action(f_args.game, actions[i],
                                                        f_args.symmetry)]]
    /\ f_pc' = "transformed"
    /\ UNCHANGED f_args
    /\ symmetry_frame

SymmetryInit ==
    /\ pc = "symmetry"
    /\ RunnerIdle
    /\ use_symmetries = FALSE
    /\ SinkEmpty
    /\ SearchIdle
    /\ EvaluatorIdle
    /\ SeedIdle
    /\ BoopIdle
    /\ ProtocolIdle
    /\ f_pc = "position"
    /\ f_args \in [game : Positions, symmetry : 0..(SYMMETRY_COUNT - 1)]
    /\ f_result = [game |-> TicTacToe_new, actions |-> <<>>]

SymmetryNext == SymmetryTransform

SymmetrySpec == SymmetryInit /\ [][SymmetryNext]_vars

(***************************************************************************)
(* game/tic_tac_toe/action_encoder.rs, game/boop/action_encoder.rs: an     *)
(* action is encoded and the id decoded again.  The actions are those      *)
(* get_possible_actions can list: a mark on a square; a kitten or a cat on *)
(* a square, a line of three to graduate, a single piece to graduate.      *)
(***************************************************************************)
TicTacToeActions == Squares

BoopActions ==
    {Place(piece, index) : piece \in {"Kitten", "Cat"},
                           index \in 0..(Boop_BOARD_SIZE * Boop_BOARD_SIZE - 1)}
    \cup {Graduate(mask) : mask \in SeqRange(Boop_THREE_IN_A_ROW_MASKS)}
    \cup {Graduate({index}) : index \in 0..(Boop_BOARD_SIZE * Boop_BOARD_SIZE - 1)}

encoder_frame == UNCHANGED <<runner_vars, sink_vars, obs_vars, search_vars,
                             evaluator_vars, seed_vars, boop_vars, protocol_vars>>

EncoderEncode ==
    /\ f_pc = "action"
    /\ f_result' = [action_id |-> IF f_args.encoder = "tic_tac_toe"
                                     THEN ActionEncoder_encode(f_args.action)
                                     ELSE BoopActionEncoder_encode(f_args.action),
                    action |-> None]
    /\ f_pc' = "encoded"
    /\ UNCHANGED f_args
    /\ encoder_frame

EncoderDecode ==
    /\ f_pc = "encoded"
    /\ f_result' = [f_result EXCEPT !.action =
                        Some(IF f_args.encoder = "tic_tac_toe"
                                THEN ActionEncoder_decode(f_result.action_id)
                                ELSE BoopActionEncoder_decode(f_result.action_id))]
    /\ f_pc' = "decoded"
    /\ UNCHANGED f_args
    /\ encoder_frame

EncoderInit ==
    /\ pc = "encoder"
    /\ RunnerIdle
    /\ use_symmetries = FALSE
    /\ SinkEmpty
    /\ SearchIdle
    /\ EvaluatorIdle
    /\ SeedIdle
    /\ BoopIdle
    /\ ProtocolIdle
    /\ f_pc = "action"
    /\ \/ f_args \in [encoder : {"tic_tac_toe"}, action : TicTacToeActions]
       \/ f_args \in [encoder : {"boop"}, action : BoopActions]
    /\ f_result = [action_id |-> 0, action |-> None]

EncoderNext ==
    \/ EncoderEncode
    \/ EncoderDecode

EncoderSpec == EncoderInit /\ [][EncoderNext]_vars

(***************************************************************************)
(* game/tic_tac_toe/tic_tac_toe.rs: outcome() called on a pair of          *)
(* bitboards.  Every pair of disjoint boards is an input, those no game    *)
(* reaches included (both sides with a line).                              *)
(***************************************************************************)
Bitboards ==
    {g \in [player_marks : SUBSET Squares, opponent_marks : SUBSET Squares] :
        g.player_marks \cap g.opponent_marks = {}}

\* lines 190-214
OutcomeCall ==
    /\ f_pc = "state"
    /\ f_result' = outcome(f_args.game)
    /\ f_pc' = "outcome"
    /\ UNCHANGED f_args
    /\ symmetry_frame

OutcomeInit ==
    /\ pc = "outcome"
    /\ RunnerIdle
    /\ use_symmetries = FALSE
    /\ SinkEmpty
    /\ SearchIdle
    /\ EvaluatorIdle
    /\ SeedIdle
    /\ BoopIdle
    /\ ProtocolIdle
    /\ f_pc = "state"
    /\ f_args \in [game : Bitboards]
    /\ f_result = "InProgress"

OutcomeNext == OutcomeCall

OutcomeSpec == OutcomeInit /\ [][OutcomeNext]_vars

(***************************************************************************)
(* game/boop/boop.rs: apply_place_action on a board with a few pieces      *)
(* around the square the piece is placed on: a corner square and a square  *)
(* one step inside the board, so that pushes end off the board, on a free  *)
(* square and on an occupied one.                                          *)
(***************************************************************************)
MaxBoardPieces == 3

PlaceSquares == {0, 7}

BoardNames == {"player_kittens", "player_cats", "opponent_kittens", "opponent_cats"}

Distance(p, q) ==
    LET a == index_to_xy(p)
        b == index_to_xy(q)
        dx == IF a[1] > b[1] THEN a[1] - b[1] ELSE b[1] - a[1]
        dy == IF a[2] > b[2] THEN a[2] - b[2] ELSE b[2] - a[2]
    IN IF dx > dy THEN dx ELSE dy

\* the squares up to two steps from p
Region(p) ==
    {q \in 0..(Boop_BOARD_SIZE * Boop_BOARD_SIZE - 1) : q # p /\ Distance(p, q) <= 2}

\* which piece stands on which square
Arrangements(p) ==
    UNION {[squares -> BoardNames] :
              squares \in {t \in SUBSET Region(p) : Cardinality(t) <= MaxBoardPieces}}

BoardOf(arrangement, name) == {q \in DOMAIN arrangement : arrangement[q] = name}

\* the game with these pieces on the board and the placed piece in the pool:
\* each cat on the board, and a cat to place, has graduated
Arranged(arrangement, piece) ==
    [phase |-> "Place",
     player_kittens |-> BoardOf(arrangement, "player_kittens"),
     player_cats |-> BoardOf(arrangement, "player_cats"),
     player_graduations |-> Cardinality(BoardOf(arrangement, "player_cats"))
                               + (IF piece = "Cat" THEN 1 ELSE 0),
     opponent_kittens |-> BoardOf(arrangement, "opponent_kittens"),
     opponent_cats |-> BoardOf(arrangement, "opponent_cats"),
     opponent_graduations |-> Cardinality(BoardOf(arrangement, "opponent_cats"))]

\* lines 144-209
BoopPlace ==
    /\ f_pc = "place"
    /\ f_result' = apply_place_action(f_args.game, f_args.piece, f_args.index)
    /\ f_pc' = "placed"
    /\ UNCHANGED f_args
    /\ symmetry_frame

BoopPlaceInit ==
    /\ pc = "boop_place"
    /\ RunnerIdle
    /\ use_symmetries = FALSE
    /\ SinkEmpty
    /\ SearchIdle
    /\ EvaluatorIdle
    /\ SeedIdle
    /\ BoopIdle
    /\ ProtocolIdle
    /\ f_pc = "place"
    /\ \E index \in PlaceSquares, piece \in {"Kitten", "Cat"} :
       \E arrangement \in Arrangements(index) :
          f_args = [game |-> Arranged(arrangement, piece), piece |-> piece, index |-> index]
    /\ f_result = Boop_new

BoopPlaceNext == BoopPlace

BoopPlaceSpec == BoopPlaceInit /\ [][BoopPlaceNext]_vars

(***************************************************************************)
(* game/boop/boop.rs under the game protocol: from new() with any legal    *)
(* action, and from new() through fourteen given kitten placements, after  *)
(* which each side has seven kittens on the board, and then with any legal *)
(* action, so that the eighth piece of a side is placed within the bound   *)
(* on the plies.                                                           *)
(***************************************************************************)
EndgamePlies == 6

\* the squares of fourteen placements of a kitten, the sides alternating
Opening == <<18, 29, 21, 20, 17, 15, 24, 14, 15, 32, 33, 30, 14, 35>>

\* boop.rs lines 416-454: the next placement of the opening is applied as the
\* protocol applies it (a legal action, apply_action returns true, end_turn)
BoopOpeningPly ==
    /\ g_pc = "opening"
    /\ g_kind = "boop"
    /\ LET action == Place("Kitten", Opening[g_plies + 1])
           applied == Boop_apply_action(g_boop, action)
       IN /\ action \in SeqRange(Boop_get_possible_actions(g_boop))
          /\ applied.turn_complete
          /\ g_boop' = Boop_end_turn(applied.game)
    /\ IF g_plies + 1 = Len(Opening)
          THEN g_pc' = "act" /\ g_plies' = MaxProtocolPlies - EndgamePlies
          ELSE g_pc' = "opening" /\ g_plies' = g_plies + 1
    /\ UNCHANGED <<g_kind, g_tic_tac_toe>>
    /\ protocol_frame

BoopGameInit ==
    /\ pc = "boop_game"
    /\ RunnerIdle
    /\ use_symmetries = FALSE
    /\ SinkEmpty
    /\ SearchIdle
    /\ EvaluatorIdle
    /\ SeedIdle
    /\ BoopIdle
    /\ CallIdle
    /\ g_pc \in {"act", "opening"}
    /\ g_kind = "boop"
    /\ g_tic_tac_toe = TicTacToe_new
    /\ g_boop = Boop_new
    /\ g_plies = 0

BoopGameNext ==
    \/ BoopOpeningPly
    \/ BoopApply
    \/ BoopEndTurn

BoopGameSpec == BoopGameInit /\ [][BoopGameNext]_vars

(***************************************************************************)
(* Properties                                                              *)
(***************************************************************************)
Emitted == hist'.tick # hist.tick

HasContext(event) == event.context # None

Entries(samples) ==
    [i \in 1..Len(samples) |-> [state |-> samples[i].state, policy |-> samples[i].policy]]

SymmetryFactor == IF use_symmetries THEN SYMMETRY_COUNT ELSE 1

\* the eight lines of the 3x3 board, written out
WinningLines ==
    {{0, 1, 2}, {3, 4, 5}, {6, 7, 8}, {0, 3, 6}, {1, 4, 7}, {2, 5, 8}, {0, 4, 8}, {2, 4, 6}}

\* the seat whose own moves (ActionApplied events of the game) form a line
SeatWon(t) == \E line \in WinningLines : line \subseteq hist.seat_marks[t]

\* C1 (step): which event may follow which within a game
C1_Follows(prev, next, completed) ==
    /\ prev.kind = "GameStarted" => next.kind = "TurnStarted"
    /\ prev.kind = "TurnStarted" => next.kind \in {"PositionEvaluated", "ActionApplied"}
    /\ prev.kind = "PositionEvaluated" => next.kind = "ActionApplied"
    /\ prev.kind = "ActionApplied" =>
          \/ next.kind = "GameFinished"
          \/ completed /\ next.kind = "TurnFinished"
          \/ ~completed /\ next.kind \in {"PositionEvaluated", "ActionApplied"}
    /\ prev.kind = "TurnFinished" => next.kind = "TurnStarted"
    /\ prev.kind = "GameFinished" => next.kind \in {"GameStarted", "RunnerFinished"}
    /\ next.kind = "TurnStarted" => prev.kind \in {"GameStarted", "TurnFinished"}
    /\ next.kind = "GameStarted" => prev.kind \in {"RunnerStarted", "GameFinished"}
    /\ next.kind \in {"TurnStarted", "PositionEvaluated", "ActionApplied",
                      "TurnFinished", "GameFinished"} =>
          /\ HasContext(prev) /\ HasContext(next)
          /\ unwrap(next.context).game_number = unwrap(prev.context).game_number

\* C1 (state): GameFinished is emitted once per game, for the games in order,
\* and a finished run has finished every game
C1_OncePerGame ==
    /\ \A i \in 1..Len(hist.finished_games) : hist.finished_games[i] = i - 1
    /\ Len(hist.finished_games) = game_number
    /\ pc = "done" => Len(hist.finished_games) = games

C2_Frame ==
    /\ hist.first_kind \in {"", "RunnerStarted"}
    /\ hist.runner_started = (IF last_event.kind = "" THEN 0 ELSE 1)
    /\ hist.runner_finished = (IF pc = "done" THEN 1 ELSE 0)
    /\ hist.runner_finished = 1 => last_event.kind = "RunnerFinished"
    /\ last_event.kind # "" =>
          (HasContext(last_event) <=> last_event.kind \notin {"RunnerStarted", "RunnerFinished"})
    /\ HasContext(last_event) => unwrap(last_event.context).game_number \in 0..(games - 1)
    /\ pc = "done" => hist.finished_games = [i \in 1..games |-> i - 1]

\* C2 (step): nothing follows RunnerFinished; games come in increasing order
C2_Order(prev, next) ==
    /\ prev.kind # "RunnerFinished"
    /\ next.kind = "RunnerStarted" => prev.kind = ""
    /\ next.kind = "GameStarted" =>
          unwrap(next.context).game_number =
              (IF HasContext(prev) THEN unwrap(prev.context).game_number + 1 ELSE 0)
    /\ HasContext(next) /\ next.kind # "GameStarted" =>
          /\ HasContext(prev)
          /\ unwrap(next.context).game_number = unwrap(prev.context).game_number
    /\ next.kind = "RunnerFinished" =>
          \/ prev.kind = "RunnerStarted" /\ games = 0
          \/ HasContext(prev) /\ unwrap(prev.context).game_number = games - 1

\* C2: RunnerStarted is emitted once and first, RunnerFinished once and last;
\* between them the events of game g all precede those of game g+1, each with
\* game_number = g; only RunnerStarted and RunnerFinished carry no context.
C2_RunFraming ==
    /\ []C2_Frame
    /\ [][Emitted => C2_Order(last_event, last_event')]_vars

C2_Witness ==
    /\ pc = "done"
    /\ games = 2
    /\ hist.finished_games = <<0, 1>>
    /\ last_event.kind = "RunnerFinished"

C3_FlushStep ==
    /\ last_event'.kind # "GameFinished" => sink_out' = <<>>
    /\ last_event'.kind = "PositionEvaluated" =>
          /\ Len(pending_samples') = Len(pending_samples) + SymmetryFactor
          /\ SubSeq(pending_samples', 1, Len(pending_samples)) = pending_samples
    /\ last_event'.kind = "GameFinished" =>
          /\ pending_samples' = <<>>
          /\ Entries(sink_out') = pending_samples
          /\ Entries(sink_out') = hist.pushed_since_reset
          /\ hist.game_started_seen /\ ~hist.flushed_since_start =>
                Len(sink_out') = hist.position_evaluated * SymmetryFactor

C4_Expected(oc, t) ==
    IF (oc = "Win" /\ t = "PlayerOne") \/ (oc = "Loss" /\ t = "PlayerTwo") THEN 1
    ELSE IF (oc = "Win" /\ t = "PlayerTwo") \/ (oc = "Loss" /\ t = "PlayerOne") THEN -1
    ELSE 0

\* the game just finished was stopped by the max_turns check
StoppedByMaxTurns ==
    /\ max_turns # None
    /\ unwrap(last_event.context).turn_number > unwrap(max_turns)

C5_PerPlyPerspective ==
    last_event.kind = "GameFinished" /\ unwrap(last_event.payload) # "Draw" =>
        \A i \in 1..Len(sink_out) :
            /\ SeatWon(hist.movers[i]) => sink_out[i].value = 1
            /\ SeatWon(advance(hist.movers[i])) => sink_out[i].value = -1

\* indices of the arena
NodeIndices == 0..(Len(tree.nodes) - 1)

Root == NodeAt(tree.nodes, tree.root_index)

RECURSIVE path_to_root(_, _)
path_to_root(nodes, index) ==
    LET parent_index == NodeAt(nodes, index).parent_index
    IN {index} \cup (IF parent_index = None THEN {}
                     ELSE path_to_root(nodes, unwrap(parent_index)))

\* the actions from the root down to a node
RECURSIVE action_path(_, _)
action_path(nodes, index) ==
    LET node == NodeAt(nodes, index)
    IN IF node.parent_index = None THEN <<>>
       ELSE Append(action_path(nodes, unwrap(node.parent_index)), unwrap(node.action))

\* the position reached by playing a path under the game protocol
\* (end_turn after every action that completed the turn)
RECURSIVE protocol_position(_, _)
protocol_position(g, path) ==
    IF path = <<>> THEN g
    ELSE LET applied == apply_action(g, Head(path))
         IN protocol_position(IF applied.turn_complete THEN end_turn(applied.game)
                                                       ELSE applied.game,
                              Tail(path))

Occurrences(s, x) == Cardinality({i \in 1..Len(s) : s[i] = x})

\* C6: after every completed simulation each node's visits are the visits of
\* its children plus the simulations in which select returned the node itself;
\* root.visits is the number of completed simulations and bounds the sum of the
\* root children's visits.
C6_VisitAccounting ==
    s_pc \in {"loop", "returned"} =>
        /\ \A i \in NodeIndices :
              NodeAt(tree.nodes, i).visits =
                  sum_visits(tree.nodes, NodeAt(tree.nodes, i).child_indices)
                      + leaf_visits[i + 1]
        /\ Root.visits = sims_done
        /\ sum_visits(tree.nodes, Root.child_indices) <= Root.visits

C6_Witness ==
    /\ s_pc = "loop"
    /\ sims_done >= 5
    /\ \E i \in NodeIndices \ {0} :
          /\ NodeAt(tree.nodes, i).child_indices # <<>>
          /\ NodeAt(tree.nodes, i).visits >= 2
          /\ leaf_visits[i + 1] >= 1

C7_Shape ==
    Len(tree.nodes) > 0 =>
        /\ tree.root_index = 0
        /\ Root.parent_index = None
        /\ Root.action = None
        /\ \A i \in NodeIndices \ {0} :
              LET node == NodeAt(tree.nodes, i)
              IN /\ node.parent_index # None
                 /\ node.action # None
                 /\ unwrap(node.parent_index) \in 0..(i - 1)
                 /\ Occurrences(NodeAt(tree.nodes, unwrap(node.parent_index)).child_indices, i) = 1
        /\ \A i \in NodeIndices :
              \A k \in 1..Len(NodeAt(tree.nodes, i).child_indices) :
                 LET c == NodeAt(tree.nodes, i).child_indices[k]
                 IN c \in NodeIndices /\ NodeAt(tree.nodes, c).parent_index = Some(i)

C7_Stable ==
    /\ Len(tree'.nodes) >= Len(tree.nodes)
    /\ tree'.root_index = tree.root_index
    /\ \A i \in NodeIndices :
          /\ NodeAt(tree'.nodes, i).parent_index = NodeAt(tree.nodes, i).parent_index
          /\ NodeAt(tree'.nodes, i).action = NodeAt(tree.nodes, i).action

\* C7: the arena is always a tree rooted at index 0 (root without parent and
\* action; every other node listed exactly once by a parent of smaller index);
\* nodes are only appended and keep their index, parent_index and action.
C7_ArenaIsTree == []C7_Shape /\ [][C7_Stable]_vars

C7_Witness ==
    /\ Len(tree.nodes) >= 5
    /\ \E i \in NodeIndices \ {0} : NodeAt(tree.nodes, i).parent_index # Some(0)

\* C8: tree.game is the position passed to search at the start of every
\* simulation and when search returns, and the caller's game never changes.
C8_GameRestored ==
    /\ [](s_pc \in {"loop", "select", "returned"} => tree.game = root_game)
    /\ [][root_game' = root_game]_vars

C8_Witness ==
    /\ s_pc = "loop"
    /\ sims_done >= 1
    /\ node_index # tree.root_index
    /\ Len(NodeAt(tree.nodes, node_index).child_indices) > 0
    /\ tree.game = root_game

\* C9: the value backpropagated is in root perspective: when the selected node
\* is a terminal position of the game, it is +1 if the side to move at the root
\* has won there, -1 if that side has lost, 0 for a draw.
C9_RootPerspective ==
    s_pc = "backpropagate" =>
        LET real == protocol_position(root_game, action_path(tree.nodes, node_index))
            node == NodeAt(tree.nodes, node_index)
        IN outcome(real) # "InProgress" =>
              value = (IF node.turn = Root.turn THEN outcome_value(outcome(real))
                                                ELSE 0 - outcome_value(outcome(real)))

C10_Step ==
    s_pc = "backpropagate" /\ s_pc' = "restore" =>
        LET v == IF NodeAt(tree.nodes, node_index).turn = Root.turn
                    THEN evaluation.value ELSE 0 - evaluation.value
            path == path_to_root(tree.nodes, node_index)
        IN /\ value = v
           /\ tree.root_index \in path
           /\ Len(tree'.nodes) = Len(tree.nodes)
           /\ \A i \in NodeIndices :
                 IF i \in path
                    THEN /\ NodeAt(tree'.nodes, i).visits = NodeAt(tree.nodes, i).visits + 1
                         /\ NodeAt(tree'.nodes, i).total_value
                               = NodeAt(tree.nodes, i).total_value + v
                    ELSE NodeAt(tree'.nodes, i) = NodeAt(tree.nodes, i)

\* C10: backpropagation adds one visit and the same value v to exactly the
\* nodes from the selected node up to the root, v being evaluation.value when
\* the selected node's turn is the root's turn and its negation otherwise;
\* nodes off that path keep their visits and total_value.
C10_BackpropagateFrame == [][C10_Step]_vars

C10_Witness ==
    /\ s_pc = "restore"
    /\ Len(tree.nodes) >= 5
    /\ Cardinality(path_to_root(tree.nodes, node_index)) = 2
    /\ value = 0 - evaluation.value
    /\ value # 0
    /\ NodeAt(tree.nodes, node_index).visits = 2

\* the legal actions that complete three in a row for the side to move
WinningActions(g) ==
    {a \in SeqRange(get_possible_actions(g)) : outcome(apply_action(g, a).game) = "Win"}

\* simulations that let every legal root action be expanded, visited once and
\* revisited twice
EnoughSimulations == simulations >= 4 * Len(get_possible_actions(root_game))

\* C11: from a position where the side to move can complete three in a row at
\* once, the classic player (rollout evaluator, UCB1, random expander) with
\* temperature 0 returns an action that completes it.
C11_ImmediateWin ==
    (/\ s_pc = "returned"
     /\ expander = "random"
     /\ temperature = 0
     /\ WinningActions(root_game) # {}
     /\ EnoughSimulations)
        => /\ ~result.panicked
           /\ result.action \in WinningActions(root_game)

\* C12: in a rollout the perspective flips at every turn boundary, so the
\* playout is the legal continuation in which the sides alternate, and the
\* value returned is the terminal outcome seen by the side to move at the
\* rollout's starting position.
C12_PlayoutAlternates ==
    (e_kind = "rollout" /\ e_pc \in {"rollout", "done"} /\ e_plies > 0) =>
        /\ e_clone = e_real
        /\ e_pc = "done" =>
              /\ ~e_result.panicked
              /\ e_result.value = (IF e_plies % 2 = 0
                                      THEN outcome_value(outcome(e_real))
                                      ELSE 0 - outcome_value(outcome(e_real)))

\* C18: at a terminal position every evaluator returns an empty policy and
\* the terminal value (+1 for Win, -1 for Loss, 0 for Draw).
C18_TerminalEvaluation ==
    (e_pc = "done" /\ outcome(e_game) # "InProgress") =>
        /\ ~e_result.panicked
        /\ e_result.policy = <<>>
        /\ e_result.value = outcome_value(outcome(e_game))

RECURSIVE sum_numerators(_)
sum_numerators(policy) ==
    IF policy = <<>> THEN 0 ELSE Head(policy)[1] + sum_numerators(Tail(policy))

\* the actions of the root's children
RootChildActions ==
    {unwrap(NodeAt(tree.nodes, Root.child_indices[k]).action) : k \in 1..Len(Root.child_indices)}

\* C14: the policy vector of a Sample made from an MCTS evaluation (any
\* simulations >= 1, non-terminal position) has ACTION_COUNT entries, is zero
\* off the root's children and sums to 1.
C14_PolicyVector ==
    (s_pc = "delivered" /\ simulations >= 1 /\ outcome(root_game) = "InProgress") =>
        \A k \in 1..Len(pending_samples) :
            LET policy == pending_samples[k].policy
            IN /\ Len(policy) = ACTION_COUNT
               /\ \A id \in 0..(ACTION_COUNT - 1) :
                     id \notin RootChildActions => policy[id + 1][1] = 0
               /\ \A id \in 0..(ACTION_COUNT - 1) : policy[id + 1][2] = policy[1][2]
               /\ sum_numerators(policy) = policy[1][2]

\* C15: at a root with exactly one legal action a, a search with any
\* simulations >= 1 (either expander, any temperature) returns a with the
\* policy [(a, 1.0)].
C15_SingleAction ==
    (/\ s_pc = "returned"
     /\ simulations >= 1
     /\ Len(get_possible_actions(root_game)) = 1)
        => LET a == get_possible_actions(root_game)[1]
           IN /\ ~result.panicked
              /\ result.action = a
              /\ Len(result.evaluation.policy) = 1
              /\ result.evaluation.policy[1].action = a
              /\ result.evaluation.policy[1].prior[1] = result.evaluation.policy[1].prior[2]

\* C16: with simulations = 0 on a non-terminal position the search returns
\* the legal actions with a uniform policy and the first of them as the
\* action; it does not panic.
C16_ZeroSimulations ==
    (/\ s_pc = "returned"
     /\ simulations = 0
     /\ outcome(root_game) = "InProgress")
        => LET legal == get_possible_actions(root_game)
           IN /\ ~result.panicked
              /\ result.evaluation.policy =
                    [i \in 1..Len(legal) |->
                        [action |-> legal[i], prior |-> Fraction(1, Len(legal))]]
              /\ result.action = legal[1]

\* the first item of a policy whose prior is the largest (the priors of one
\* evaluation share their denominator, so their numerators are compared)
FirstLargest(policy) ==
    CHOOSE i \in 1..Len(policy) :
        /\ \A j \in 1..Len(policy) : policy[j].prior[1] <= policy[i].prior[1]
        /\ \A j \in 1..(i - 1) : policy[j].prior[1] < policy[i].prior[1]

\* C17: with temperature 0 choose_action returns the action of the first
\* policy item that has the largest prior.
C17_ArgmaxFirst ==
    (/\ s_pc = "returned"
     /\ temperature = 0
     /\ result.evaluation.policy # <<>>)
        => /\ ~result.panicked
           /\ result.action =
                 result.evaluation.policy[FirstLargest(result.evaluation.policy)].action

\* the noise of a configured driver is to be mixed into this evaluation
NoiseApplies ==
    /\ node_index = tree.root_index
    /\ dirichlet_noise # None
    /\ Len(raw_evaluation.policy) >= 2

\* two priors are different numbers
DifferentPrior(a, b) == a[1] * b[2] # b[1] * a[2]

\* prior `a` is at least the (1 - epsilon) share of prior `b`
AtLeastKeptShare(a, b) ==
    LET epsilon == DirichletNoise.epsilon
    IN a[1] * b[2] * epsilon[2] >= (epsilon[2] - epsilon[1]) * b[1] * a[2]

\* the priors stored on the children of the node just expanded
ExpandedChildPriors ==
    LET children == NodeAt(tree.nodes, node_index).child_indices
    IN [i \in 1..Len(children) |-> NodeAt(tree.nodes, children[i]).prior]

\* C20: Dirichlet noise is mixed into the priors only at the root, only when
\* configured and only for two or more items, and then before the expander
\* runs: the complete expander stores the noised priors on the root's
\* children; otherwise the priors reach the expander unchanged.
C20_NoiseBeforeExpansion ==
    s_pc = "backpropagate" =>
        LET raw == raw_evaluation.policy
            mixed == evaluation.policy
        IN /\ Len(mixed) = Len(raw)
           /\ evaluation.value = raw_evaluation.value
           /\ \A i \in 1..Len(raw) : mixed[i].action = raw[i].action
           /\ NoiseApplies =>
                 /\ \E i \in 1..Len(raw) : DifferentPrior(mixed[i].prior, raw[i].prior)
                 /\ \A i \in 1..Len(raw) : AtLeastKeptShare(mixed[i].prior, raw[i].prior)
                 /\ \A i \in 1..Len(raw) : mixed[i].prior[2] = mixed[1].prior[2]
                 /\ sum_numerators([i \in 1..Len(mixed) |-> mixed[i].prior]) = mixed[1].prior[2]
           /\ ~NoiseApplies => mixed = raw
           /\ expander = "complete" =>
                 ExpandedChildPriors = [i \in 1..Len(mixed) |-> mixed[i].prior]

C20_Witness ==
    /\ s_pc = "backpropagate"
    /\ NoiseApplies
    /\ expander = "complete"
    /\ evaluation # raw_evaluation
    /\ ExpandedChildPriors = [i \in 1..Len(evaluation.policy) |-> evaluation.policy[i].prior]
    /\ Len(ExpandedChildPriors) >= 2

\* both drivers were re-seeded with one seed and have returned
SameSeedReturned ==
    /\ drivers # <<>>
    /\ drivers[1].d_pc = "returned"
    /\ drivers[2].d_pc = "returned"
    /\ drivers[1].seed # None
    /\ drivers[1].seed = drivers[2].seed

\* C19: two drivers of one configuration, re-seeded with the same seed and
\* run on the same game, select the same nodes, make the same expansions and
\* return the same evaluation and action.
C19_SeededDeterminism ==
    SameSeedReturned =>
        /\ drivers[1].trace = drivers[2].trace
        /\ drivers[1].result = drivers[2].result

\* C13: from a non-terminal position of boop the rollout evaluator's playout
\* never stands at a position without legal actions whose outcome is
\* InProgress; it ends in a terminal position and returns that position's
\* value (+1 for Win, -1 for Loss, 0 for Draw).
C13_PlayoutReachesTerminal ==
    /\ b_pc = "rollout" =>
          (Boop_get_possible_actions(b_clone) = <<>> => Boop_outcome(b_clone) # "InProgress")
    /\ (b_pc = "done" /\ Boop_outcome(b_game) = "InProgress") =>
          /\ ~b_result.panicked
          /\ Boop_outcome(b_clone) # "InProgress"
          /\ b_result.value = outcome_value(Boop_outcome(b_clone))

\* no event carries a turn_number greater than max_turns + 1
C21_Bound ==
    (max_turns # None /\ last_event.context # None) =>
        unwrap(last_event.context).turn_number <= unwrap(max_turns) + 1

\* the event after an ActionApplied whose turn_number exceeds max_turns is
\* GameFinished with outcome Draw
C21_Cut ==
    (/\ pc = "after_action"
     /\ max_turns # None
     /\ turn_number > unwrap(max_turns))
        => /\ Emitted
           /\ last_event'.kind = "GameFinished"
           /\ last_event'.payload = Some("Draw")
           /\ last_event'.context = Context

\* how far a position of Runner::run is from the end of its iteration
PcRank ==
    CASE pc = "choose" -> 5
      [] pc = "position_evaluated" -> 4
      [] pc = "apply" -> 3
      [] pc = "after_action" -> 2
      [] pc = "end_turn" -> 1
      [] OTHER -> 0

\* a measure of the work left in a run with max_turns set: games to play,
\* then turns left before the cut, then steps left in the turn
C21_Rank ==
    LET turns == unwrap(max_turns) + 3
        per_game == 8 * turns + 2
        in_game == IF pc = "next_game" THEN per_game - 1
                   ELSE IF pc = "turn_started" THEN per_game - 2
                   ELSE 8 * (turns - 1 - turn_number) + PcRank
    IN IF pc = "done" THEN 0
       ELSE IF pc = "start" THEN per_game * (games + 2)
       ELSE 1 + per_game * (IF games > game_number THEN games - game_number ELSE 0) + in_game

\* every step of the run makes the measure smaller and keeps it non-negative
C21_Progress == (max_turns # None) => (C21_Rank' < C21_Rank /\ C21_Rank' >= 0)

\* some step of Runner::run can be taken: the guards of the disjuncts of Next
\* (after an action one of the three continuations always applies)
RunnerCanStep ==
    \/ pc \in {"start", "next_game", "turn_started", "position_evaluated", "apply",
               "after_action", "end_turn"}
    \/ pc = "choose" /\ get_possible_actions(game) # <<>>

\* the run never stalls before its end
C21_NoStall == (max_turns # None /\ pc # "done") => RunnerCanStep

\* C21: with max_turns = M every game terminates (each step brings the run
\* closer to its end and the run never stalls); GameFinished(Draw) follows
\* the first ActionApplied whose turn_number is greater than M, and no event
\* carries a turn_number greater than M + 1.
C21_MaxTurnsBound ==
    /\ []C21_Bound
    /\ []C21_NoStall
    /\ [][C21_Cut]_vars
    /\ [][C21_Progress]_vars

C21_Witness ==
    /\ max_turns # None
    /\ last_event.kind = "GameFinished"
    /\ last_event.payload = Some("Draw")
    /\ unwrap(last_event.context).turn_number = unwrap(max_turns) + 1
    /\ outcome(game) = "InProgress"

\* in a context of game g, turn is PlayerOne exactly when g + turn_number is even
C22_Parity ==
    last_event.context # None =>
        LET context == unwrap(last_event.context)
        IN (context.turn = "PlayerOne")
              <=> ((context.game_number + context.turn_number) % 2 = 0)

\* the player asked is the one of the side to move: only an MCTS player
\* attaches an evaluation to its choice
C22_Asked ==
    /\ pc \in {"position_evaluated", "apply"} =>
          ((choice.evaluation # None) <=> (players[turn] = "mcts"))
    /\ last_event.kind = "PositionEvaluated" =>
          players[unwrap(last_event.context).turn] = "mcts"

\* within a game turn flips exactly when turn_number is incremented
C22_Flip ==
    (game_number' = game_number /\ pc # "next_game") =>
        /\ turn_number' \in {turn_number, turn_number + 1}
        /\ (turn' # turn) <=> (turn_number' = turn_number + 1)

\* C22: in every event context of game g, turn = PlayerOne exactly when
\* g + turn_number is even (the first mover alternates with g), turn flips
\* exactly when turn_number is incremented, and the player asked to choose is
\* the one of the side to move.
C22_TurnParity == []C22_Parity /\ []C22_Asked /\ [][C22_Flip]_vars

C22_Witness ==
    /\ last_event.kind = "PositionEvaluated"
    /\ unwrap(last_event.context).game_number = 1
    /\ unwrap(last_event.context).turn_number = 1
    /\ unwrap(last_event.context).turn = "PlayerOne"
    /\ players = [t \in Turn |-> IF t = "PlayerOne" THEN "mcts" ELSE "random"]

\* what an emitted event's context must say, given the event before it
C23_Step ==
    (Emitted /\ last_event'.context # None) =>
        LET context == unwrap(last_event'.context)
            kind == last_event'.kind
        IN \* the snapshot is the state at the moment of emission
           /\ context.game = game'
           /\ context.turn = turn'
           /\ context.turn_number = turn_number'
           \* the state the player was asked about: the action is not applied yet
           /\ kind = "PositionEvaluated" =>
                 /\ context.game = game
                 /\ choice.action \in SeqRange(get_possible_actions(context.game))
           \* after the action, before end_turn, the side that moved
           /\ kind = "ActionApplied" =>
                 /\ context.game = apply_action(game, choice.action).game
                 /\ context.turn = turn
                 /\ context.turn_number = turn_number
                 /\ last_event.kind = "PositionEvaluated" =>
                       unwrap(last_event.context).game = game
           /\ kind \in {"TurnFinished", "GameFinished"} =>
                 /\ last_event.kind = "ActionApplied"
                 /\ context = unwrap(last_event.context)
           \* after end_turn, with the advanced turn and the next turn_number
           /\ (kind = "TurnStarted" /\ last_event.kind = "TurnFinished") =>
                 /\ context.game = end_turn(unwrap(last_event.context).game)
                 /\ context.turn = advance(unwrap(last_event.context).turn)
                 /\ context.turn_number = unwrap(last_event.context).turn_number + 1

\* C23: the game snapshot of a context is the state at the moment of
\* emission: PositionEvaluated carries the state the player was asked about;
\* ActionApplied, TurnFinished and GameFinished the state after the action
\* and before end_turn with the side that moved; the TurnStarted after a
\* TurnFinished the state after end_turn with the advanced turn and the
\* incremented turn_number.
C23_Snapshots == [][C23_Step]_vars

C23_Witness ==
    /\ last_event.kind = "TurnStarted"
    /\ unwrap(last_event.context).turn_number = 2
    /\ unwrap(last_event.context).game = game
    /\ Cardinality(game.player_marks) = 1
    /\ Cardinality(game.opponent_marks) = 1
    /\ hist.position_evaluated > 0

\* the counter a GameFinished event must increment
C24_Counter(event) ==
    LET outcome_ == unwrap(event.payload)
        turn_ == unwrap(event.context).turn
    IN IF <<outcome_, turn_>> \in {<<"Win", "PlayerOne">>, <<"Loss", "PlayerTwo">>}
          THEN "player_1_wins"
       ELSE IF <<outcome_, turn_>> \in {<<"Win", "PlayerTwo">>, <<"Loss", "PlayerOne">>}
          THEN "player_2_wins"
       ELSE "draws"

C24_Totals ==
    /\ statistics.total_games
         = statistics.player_1_wins + statistics.player_2_wins + statistics.draws
    /\ statistics.total_games = Len(hist.finished_games)
    /\ pc = "done" => statistics.total_games = games

C24_Step ==
    IF Emitted /\ last_event'.kind = "GameFinished"
       THEN \A counter \in {"player_1_wins", "player_2_wins", "draws"} :
               statistics'[counter] = statistics[counter]
                   + (IF counter = C24_Counter(last_event') THEN 1 ELSE 0)
       ELSE statistics' = statistics

\* C24: after any sequence of runner events the statistics sink has
\* total_games = player_1_wins + player_2_wins + draws = number of
\* GameFinished events received (games after a full run); a GameFinished
\* increments exactly the counter of its (outcome, turn) pair and no other
\* event changes a counter.
C24_Statistics == []C24_Totals /\ [][C24_Step]_vars

C24_Witness ==
    /\ statistics.total_games = 3
    /\ statistics.player_1_wins = 1
    /\ statistics.player_2_wins = 1
    /\ statistics.draws = 1
    /\ last_event.kind = "GameFinished"
    /\ last_event.payload = Some("Loss")
    /\ unwrap(last_event.context).turn = "PlayerTwo"

C24_RunWitness ==
    /\ pc = "done"
    /\ games = 2
    /\ statistics.total_games = 2
    /\ statistics.player_1_wins = 1
    /\ statistics.draws = 1

\* no legal action exactly when the game is over, for both game objects
EmptyIffOver ==
    /\ (get_possible_actions(g_tic_tac_toe) = <<>>) <=> (outcome(g_tic_tac_toe) # "InProgress")
    /\ (Boop_get_possible_actions(g_boop) = <<>>) <=> (Boop_outcome(g_boop) # "InProgress")

C25_GraduateWitness ==
    /\ g_kind = "boop"
    /\ g_pc = "act"
    /\ g_boop.phase = "Graduate"

C25_DrawWitness ==
    /\ g_kind = "tic_tac_toe"
    /\ g_pc = "act"
    /\ outcome(g_tic_tac_toe) = "Draw"

\* the ActionApplied events of the current game
ActionsApplied == Cardinality(hist.seat_marks["PlayerOne"]) + Cardinality(hist.seat_marks["PlayerTwo"])

\* at most nine actions are applied in a game, and the event that ends it
\* reports a decided outcome
C26_Bound ==
    (max_turns = None) =>
        /\ ActionsApplied <= BOARD_SIZE * BOARD_SIZE
        /\ last_event.kind = "GameFinished" =>
              /\ unwrap(last_event.payload) \in {"Win", "Loss", "Draw"}
              /\ unwrap(last_event.payload) = outcome(unwrap(last_event.context).game)
              /\ ActionsApplied = unwrap(last_event.context).turn_number + 1

\* a measure of the work left in a run without max_turns: games to play,
\* then squares left to fill, then steps left in the turn
C26_Rank ==
    LET turns == BOARD_SIZE * BOARD_SIZE + 1
        per_game == 8 * turns + 2
        in_game == IF pc = "next_game" THEN per_game - 1
                   ELSE IF pc = "turn_started" THEN per_game - 2
                   ELSE 8 * (turns - 1 - turn_number) + PcRank
    IN IF pc = "done" THEN 0
       ELSE IF pc = "start" THEN per_game * (games + 2)
       ELSE 1 + per_game * (IF games > game_number THEN games - game_number ELSE 0) + in_game

C26_Progress == (max_turns = None) => (C26_Rank' < C26_Rank /\ C26_Rank' >= 0)

C26_NoStall == (max_turns = None /\ pc # "done") => RunnerCanStep

\* after an action that decides the game, GameFinished is the next event
C26_Finish ==
    (max_turns = None /\ pc = "after_action" /\ outcome(game) # "InProgress") =>
        /\ Emitted
        /\ last_event'.kind = "GameFinished"
        /\ last_event'.payload = Some(outcome(game))

\* C26: a tic-tac-toe game played by the Runner without max_turns, with
\* players that return legal actions, ends (each step brings the run closer
\* to its end and the run never stalls) with GameFinished after at most 9
\* ActionApplied events, and the outcome reported is Win, Loss or Draw.
C26_GameEnds ==
    /\ []C26_Bound
    /\ []C26_NoStall
    /\ [][C26_Finish]_vars
    /\ [][C26_Progress]_vars

C26_Witness ==
    /\ max_turns = None
    /\ last_event.kind = "GameFinished"
    /\ last_event.payload = Some("Draw")
    /\ ActionsApplied = BOARD_SIZE * BOARD_SIZE

C26_WinWitness ==
    /\ max_turns = None
    /\ last_event.kind = "GameFinished"
    /\ last_event.payload = Some("Win")
    /\ ActionsApplied = 5

\* a configuration section 7 of the specification calls invalid
InvalidConfiguration(driver) ==
    \/ /\ driver.temperature_schedule # None
       /\ unwrap(driver.temperature_schedule).kind = "Linear"
       /\ unwrap(driver.temperature_schedule).threshold = 0
    \/ /\ driver.dirichlet_noise # None
       /\ LET noise == unwrap(driver.dirichlet_noise)
          IN \/ noise.alpha[1] <= 0
             \/ noise.epsilon[1] < 0
             \/ noise.epsilon[1] > noise.epsilon[2]

\* C27: an invalid configuration (Dirichlet alpha <= 0 or epsilon outside
\* [0,1], a Linear schedule with threshold = 0) fails when the driver is
\* constructed: no driver holds one and no search runs with one.
C27_RejectedAtConstruction ==
    f_result.driver # None => ~InvalidConfiguration(unwrap(f_result.driver))

\* comparison of exact fractions with positive denominators
FractionLeq(a, b) == a[1] * b[2] <= b[1] * a[2]

FractionIs(a, whole) == a[1] = whole * a[2]

\* what the specification says a schedule returns at a turn
TemperatureAsSpecified(schedule, turn_number_, returned) ==
    /\ schedule.kind = "Constant" => FractionIs(returned, schedule.hi)
    /\ schedule.kind = "Step" =>
          FractionIs(returned, IF turn_number_ < schedule.threshold THEN schedule.hi
                                                                    ELSE schedule.lo)
    /\ schedule.kind = "Linear" =>
          /\ turn_number_ >= schedule.threshold => FractionIs(returned, schedule.lo)
          /\ turn_number_ < schedule.threshold =>
                returned[1] * schedule.threshold
                    = (schedule.hi * schedule.threshold
                          - (schedule.hi - schedule.lo) * turn_number_) * returned[2]

\* the consequences drawn for Linear: hi at turn 0, between lo and hi, and
\* not above the temperature of any earlier turn when hi >= lo
LinearShape(schedule, turn_number_, returned) ==
    schedule.kind = "Linear" =>
        /\ turn_number_ = 0 => FractionIs(returned, schedule.hi)
        /\ \/ /\ FractionLeq(Fraction(schedule.lo, 1), returned)
              /\ FractionLeq(returned, Fraction(schedule.hi, 1))
           \/ /\ FractionLeq(Fraction(schedule.hi, 1), returned)
              /\ FractionLeq(returned, Fraction(schedule.lo, 1))
        /\ schedule.hi >= schedule.lo =>
              \A earlier \in 0..turn_number_ :
                  FractionLeq(returned, get_temperature(schedule, earlier))

Searched == f_pc = "searched" /\ unwrap(f_result.driver).temperature_schedule # None

\* C28: get_temperature(turn) returns t for Constant(t); hi when turn <
\* threshold and lo otherwise for Step; lo when turn >= threshold and
\* hi - (hi - lo) * turn / threshold otherwise for Linear, so Linear equals
\* hi at turn 0, lies between lo and hi and is non-increasing in turn when
\* hi >= lo.
C28_Temperature ==
    Searched =>
        LET schedule == unwrap(unwrap(f_result.driver).temperature_schedule)
            returned == unwrap(f_result.temperature)
        IN /\ TemperatureAsSpecified(schedule, f_args.turn_number, returned)
           /\ LinearShape(schedule, f_args.turn_number, returned)

\* the same for the schedules the specification calls valid (threshold > 0
\* for Linear)
C28_TemperatureOfValidSchedule ==
    (Searched /\ ~InvalidConfiguration(unwrap(f_result.driver))) =>
        LET schedule == unwrap(unwrap(f_result.driver).temperature_schedule)
            returned == unwrap(f_result.temperature)
        IN /\ TemperatureAsSpecified(schedule, f_args.turn_number, returned)
           /\ LinearShape(schedule, f_args.turn_number, returned)

\* C29: for every tic-tac-toe state g and symmetry i, the legal actions of
\* transform(g, i) are exactly the images under transform_action(., i) of
\* the legal actions of g; transform relocates each mark with the square
\* permutation of transform_action and keeps its owner; symmetry 0 is the
\* identity.
C29_Symmetry ==
    f_pc = "transformed" =>
        LET g == f_args.game
            i == f_args.symmetry
            image(square) == transform_action(g, square, i)
        IN /\ SeqRange(get_possible_actions(f_result.game)) = SeqRange(f_result.actions)
           /\ Len(f_result.actions) = Len(get_possible_actions(g))
           /\ {image(square) : square \in Squares} = Squares
           /\ \A square \in Squares :
                 /\ square \in g.player_marks <=> image(square) \in f_result.game.player_marks
                 /\ square \in g.opponent_marks <=> image(square) \in f_result.game.opponent_marks
           /\ i = 0 => /\ f_result.game = g
                       /\ f_result.actions = get_possible_actions(g)

C29_Witness ==
    /\ f_pc = "transformed"
    /\ f_args.symmetry = 1
    /\ f_args.game = [player_marks |-> {0, 1}, opponent_marks |-> {4, 6}]
    /\ f_result.game = [player_marks |-> {2, 5}, opponent_marks |-> {4, 0}]
    /\ f_result.actions = <<8, 1, 7, 3, 6>>

\* C30: for the tic-tac-toe and boop action encoders every legal action a
\* has encode(a) < ACTION_COUNT and decode(encode(a)) = a, and no other
\* action has the same id.
C30_RoundTrip ==
    /\ (f_pc \in {"encoded", "decoded"} /\ f_args.encoder = "tic_tac_toe") =>
          /\ f_result.action_id < ACTION_COUNT
          /\ \A other \in TicTacToeActions :
                ActionEncoder_encode(other) = f_result.action_id => other = f_args.action
    /\ (f_pc \in {"encoded", "decoded"} /\ f_args.encoder = "boop") =>
          /\ f_result.action_id < Boop_ACTION_COUNT
          /\ \A other \in BoopActions :
                BoopActionEncoder_encode(other) = f_result.action_id => other = f_args.action
    /\ f_pc = "decoded" => f_result.action = Some(f_args.action)

C30_Witness ==
    /\ f_pc = "decoded"
    /\ f_args.encoder = "boop"
    /\ f_args.action = Graduate({35})
    /\ f_result.action_id = Boop_ACTION_COUNT - 1
    /\ f_result.action = Some(Graduate({35}))

\* the legal actions of the boop and tic-tac-toe objects driven through the
\* protocol are among the actions the encoders are given
C30_LegalActionsCovered ==
    /\ SeqRange(get_possible_actions(g_tic_tac_toe)) \subseteq TicTacToeActions
    /\ SeqRange(Boop_get_possible_actions(g_boop)) \subseteq BoopActions

\* the position and the side to move after playing `path` from position g
\* under the game protocol: end_turn after every action that completed a turn
RECURSIVE PlayedUnderProtocol(_, _, _)
PlayedUnderProtocol(g, t, path) ==
    IF path = <<>> THEN [game |-> g, turn |-> t]
    ELSE LET applied == apply_action(g, Head(path))
         IN IF applied.turn_complete
               THEN PlayedUnderProtocol(end_turn(applied.game), advance(t), Tail(path))
               ELSE PlayedUnderProtocol(applied.game, t, Tail(path))

\* C31: whenever the evaluator is invoked on the node n returned by select,
\* tree.game is the position reached from the root position by playing n's
\* action path under the game protocol: the position in which
\* n.unexplored_actions was computed, with n.turn to move.
C31_EvaluatedPosition ==
    s_pc = "expand" =>
        LET n == NodeAt(tree.nodes, node_index)
            reached == PlayedUnderProtocol(root_game, "PlayerOne",
                                           action_path(tree.nodes, node_index))
        IN /\ tree.game = reached.game
           /\ n.turn = reached.turn

\* the part of C31 that holds: the node's turn is the side to move of the
\* protocol position, and at the root the evaluator sees the root position
C31_TurnOfNode ==
    s_pc = "expand" =>
        LET n == NodeAt(tree.nodes, node_index)
            reached == PlayedUnderProtocol(root_game, "PlayerOne",
                                           action_path(tree.nodes, node_index))
        IN /\ n.turn = reached.turn
           /\ node_index = tree.root_index => tree.game = root_game

\* the child of node m that lies on the way to node `index`
ChildToward(nodes, m, index) ==
    CHOOSE c \in SeqRange(NodeAt(nodes, m).child_indices) : c \in path_to_root(nodes, index)

\* C32: select descends only through nodes that have at least one child and
\* no unexplored action, steps each time to a child whose score is at least
\* every sibling's, and returns the first node on the way that has an
\* unexplored action or no child; under UCB1 the child chosen below a node
\* that has an unvisited child is itself unvisited.
C32_Descent ==
    s_pc = "expand" =>
        LET n == NodeAt(tree.nodes, node_index)
        IN /\ n.unexplored_actions # <<>> \/ n.child_indices = <<>>
           /\ tree.root_index \in path_to_root(tree.nodes, node_index)
           /\ \A m \in path_to_root(tree.nodes, node_index) \ {node_index} :
                 LET parent == NodeAt(tree.nodes, m)
                     chosen == NodeAt(tree.nodes, ChildToward(tree.nodes, m, node_index))
                 IN /\ parent.child_indices # <<>>
                    /\ parent.unexplored_actions = <<>>
                    /\ \A c \in SeqRange(parent.child_indices) :
                          Ucb1Scorer_score(parent, chosen)
                              >= Ucb1Scorer_score(parent, NodeAt(tree.nodes, c))
                    /\ (\E c \in SeqRange(parent.child_indices) :
                            NodeAt(tree.nodes, c).visits = 0) => chosen.visits = 0

\* select stepped to an unvisited root child that has a visited sibling
C32_Witness ==
    /\ s_pc = "expand"
    /\ NodeAt(tree.nodes, node_index).parent_index = Some(tree.root_index)
    /\ NodeAt(tree.nodes, node_index).visits = 0
    /\ \E c \in SeqRange(Root.child_indices) : NodeAt(tree.nodes, c).visits > 0

\* select went two levels down, the first step between visited children whose
\* scores differ
C32_ScoredWitness ==
    /\ s_pc = "expand"
    /\ Len(action_path(tree.nodes, node_index)) = 2
    /\ \E c \in SeqRange(Root.child_indices) :
          /\ NodeAt(tree.nodes, c).visits > 0
          /\ Ucb1Scorer_score(Root, NodeAt(tree.nodes, c))
                < Ucb1Scorer_score(Root, NodeAt(tree.nodes,
                                                ChildToward(tree.nodes, tree.root_index, node_index)))

\* the arena indices of the nodes the step has appended
Created == Len(tree.nodes)..(Len(tree'.nodes) - 1)

\* the items the expander has returned in the step: the whole policy of the
\* evaluation (complete), or one of the node's unexplored actions with prior 1
ExpansionItem(k) ==
    IF expander = "complete"
       THEN evaluation'.policy[k]
       ELSE [action |-> unwrap(NodeAt(tree'.nodes, Len(tree.nodes) + k - 1).action),
             prior |-> Fraction(1, 1)]

\* C33: each child that expand creates for an item (action, prior) has that
\* action and prior, the expanded node as parent, no children, no visits, no
\* value, the parent's turn advanced exactly when the action completed the
\* turn, and as unexplored actions the legal actions of tree.game after the
\* action (and end_turn when the turn completed); the children are appended to
\* the arena and to the parent's children in the order of the items, and
\* tree.game is afterwards the position it was before the expansion.
C33_Step ==
    (s_pc = "expand" /\ s_pc' = "backpropagate") =>
        LET parent == NodeAt(tree.nodes, node_index)
            count == Len(tree'.nodes) - Len(tree.nodes)
        IN /\ tree'.game = tree.game
           /\ count = (IF expander = "complete" THEN Len(evaluation'.policy)
                       ELSE IF parent.unexplored_actions = <<>> THEN 0 ELSE 1)
           /\ NodeAt(tree'.nodes, node_index).child_indices
                 = parent.child_indices \o [k \in 1..count |-> Len(tree.nodes) + k - 1]
           /\ expander = "random" =>
                 \A c \in Created :
                    unwrap(NodeAt(tree'.nodes, c).action) \in SeqRange(parent.unexplored_actions)
           /\ \A k \in 1..count :
                 LET child == NodeAt(tree'.nodes, Len(tree.nodes) + k - 1)
                     item == ExpansionItem(k)
                     applied == apply_action(tree.game, item.action)
                 IN /\ child.action = Some(item.action)
                    /\ child.prior = item.prior
                    /\ child.parent_index = Some(node_index)
                    /\ child.child_indices = <<>>
                    /\ child.visits = 0
                    /\ child.total_value = 0
                    /\ child.turn = (IF applied.turn_complete THEN advance(parent.turn)
                                                              ELSE parent.turn)
                    /\ child.unexplored_actions =
                          get_possible_actions(IF applied.turn_complete
                                                  THEN end_turn(applied.game)
                                                  ELSE applied.game)

C34_SearchReturnsAction ==
    (s_pc = "returned" /\ outcome(root_game) = "InProgress" /\ simulations >= 1) =>
        /\ ~result.panicked
        /\ temperature > 0 =>
              \E i \in 1..Len(result.evaluation.policy) :
                 result.evaluation.policy[i].prior[1] > 0

\* the part of C34 that holds: at temperature 0 the search returns an action
\* whenever the root has a child
C34_ArgmaxReturnsAction ==
    (s_pc = "returned" /\ outcome(root_game) = "InProgress" /\ simulations >= 1
        /\ temperature = 0) => ~result.panicked

\* tree.game after select has walked `path` from position g (mcts.rs:119-121)
RECURSIVE position_after_select(_, _)
position_after_select(g, path) ==
    IF path = <<>> THEN g
    ELSE position_after_select(apply_action(g, Head(path)).game, Tail(path))

\* the legal-action list computed for node `index` when it was created: by
\* Tree::new for the root (tree.rs:14-21), by expand for a child from
\* tree.game as select left it at the parent (mcts.rs:149-165)
legal_actions_at_creation(nodes, index) ==
    LET node == NodeAt(nodes, index)
    IN IF node.parent_index = None THEN get_possible_actions(root_game)
       ELSE LET at_parent == position_after_select(
                                 root_game, action_path(nodes, unwrap(node.parent_index)))
                applied == apply_action(at_parent, unwrap(node.action))
            IN get_possible_actions(IF applied.turn_complete THEN end_turn(applied.game)
                                                             ELSE applied.game)

\* the actions of a node's children, in the order of its child_indices
child_actions(nodes, index) ==
    LET node == NodeAt(nodes, index)
    IN [k \in 1..Len(node.child_indices) |->
           unwrap(NodeAt(nodes, node.child_indices[k]).action)]

NoDuplicates(s) == \A i, j \in 1..Len(s) : s[i] = s[j] => i = j

\* C35 (state part): at every point of a search and for every node n, the
\* actions of n's children are pairwise distinct, none of them is in
\* n.unexplored_actions, and they and the unexplored actions are members of
\* the legal-action list computed for n at its creation; with the complete
\* expander the children's actions of an expanded node are exactly that list.
C35_Actions ==
    s_pc # "idle" =>
        \A i \in NodeIndices :
            LET n == NodeAt(tree.nodes, i)
                legal == legal_actions_at_creation(tree.nodes, i)
                children == child_actions(tree.nodes, i)
            IN /\ NoDuplicates(children)
               /\ NoDuplicates(n.unexplored_actions)
               /\ SeqRange(children) \cap SeqRange(n.unexplored_actions) = {}
               /\ SeqRange(children) \cup SeqRange(n.unexplored_actions) \subseteq SeqRange(legal)
               /\ expander = "random" =>
                     SeqRange(children) \cup SeqRange(n.unexplored_actions) = SeqRange(legal)
               /\ expander = "complete" =>
                     \/ children = <<>> /\ n.unexplored_actions = legal
                     \/ n.unexplored_actions = <<>> /\ children = legal

\* C35 (step part): a created node starts with the legal-action list computed
\* for it as its unexplored actions, and an expansion by the random expander
\* moves exactly one action from the node's unexplored actions to a new child.
C35_ExpandStep ==
    (s_pc = "expand" /\ s_pc' = "backpropagate") =>
        LET before == NodeAt(tree.nodes, node_index)
            after == NodeAt(tree'.nodes, node_index)
        IN /\ \A c \in Created :
                 NodeAt(tree'.nodes, c).unexplored_actions
                     = legal_actions_at_creation(tree'.nodes, c)
           /\ \A i \in NodeIndices \ {node_index} :
                 NodeAt(tree'.nodes, i).unexplored_actions
                     = NodeAt(tree.nodes, i).unexplored_actions
           /\ (expander = "random" /\ before.unexplored_actions # <<>>) =>
                 /\ Cardinality(Created) = 1
                 /\ \E a \in SeqRange(before.unexplored_actions) :
                       /\ SeqRange(after.unexplored_actions)
                             = SeqRange(before.unexplored_actions) \ {a}
                       /\ Len(after.unexplored_actions) = Len(before.unexplored_actions) - 1
                       /\ child_actions(tree'.nodes, node_index)
                             = Append(child_actions(tree.nodes, node_index), a)

C35_Expansion == [][C35_ExpandStep]_vars

\* C35: in every state the children's actions and the unexplored actions of
\* every node are distinct members of the node's legal-action list, and every
\* expansion by the random expander moves exactly one action to a new child
C35_ActionSets == []C35_Actions /\ C35_Expansion

\* a node below the root holds both children and unexplored actions (random
\* expander)
C35_Witness ==
    \E i \in NodeIndices \ {tree.root_index} :
        /\ NodeAt(tree.nodes, i).child_indices # <<>>
        /\ NodeAt(tree.nodes, i).unexplored_actions # <<>>

\* a node below the root has been expanded by the complete expander
C35_CompleteWitness ==
    /\ expander = "complete"
    /\ \E i \in NodeIndices \ {tree.root_index} :
          Len(NodeAt(tree.nodes, i).child_indices) >= 2

\* C36: whenever search returns, the returned action is a legal action of the
\* root position and the action of one of the items of the returned policy;
\* every action of the returned policy is legal at the root and appears once.
C36_ReturnedAction ==
    (s_pc \in {"returned", "delivered"} /\ ~result.panicked) =>
        LET legal == SeqRange(get_possible_actions(root_game))
            policy == result.evaluation.policy
        IN /\ result.action \in legal
           /\ \E i \in 1..Len(policy) : policy[i].action = result.action
           /\ \A i \in 1..Len(policy) : policy[i].action \in legal
           /\ \A i, j \in 1..Len(policy) : policy[i].action = policy[j].action => i = j

\* a search has returned an action sampled from a policy with several items,
\* one of them without visits
C36_Witness ==
    /\ s_pc = "returned"
    /\ ~result.panicked
    /\ temperature > 0
    /\ Len(result.evaluation.policy) >= 3
    /\ \E i \in 1..Len(result.evaluation.policy) :
          result.evaluation.policy[i].prior[1] = 0

\* the last event is a GameFinished with a context
GameFinishedSeen == last_event.kind = "GameFinished" /\ last_event.context # None

\* the GameFinished event was emitted by the max_turns test (runner.rs:123-139)
CutByMaxTurns ==
    max_turns # None /\ unwrap(last_event.context).turn_number > unwrap(max_turns)

\* C37 as stated: the outcome of a GameFinished event is the outcome() of the
\* snapshot in its context when that snapshot is terminal, and Draw is reported
\* for a snapshot whose outcome is not Draw only if the snapshot is InProgress
\* and max_turns was exceeded.
C37_OutcomeOfSnapshot ==
    GameFinishedSeen =>
        LET snapshot == unwrap(last_event.context).game
            reported == unwrap(last_event.payload)
        IN /\ outcome(snapshot) # "InProgress" => reported = outcome(snapshot)
           /\ (reported = "Draw" /\ outcome(snapshot) # "Draw") =>
                 (outcome(snapshot) = "InProgress" /\ CutByMaxTurns)

\* C37 (amended): a GameFinished event emitted with turn_number <= max_turns,
\* or without max_turns, carries the outcome() of its snapshot, which is
\* terminal; one emitted with turn_number > max_turns carries Draw whatever
\* the snapshot's outcome is.
C37_OutcomeUnlessCut ==
    GameFinishedSeen =>
        LET snapshot == unwrap(last_event.context).game
            reported == unwrap(last_event.payload)
        IN IF CutByMaxTurns
              THEN reported = "Draw"
              ELSE reported = outcome(snapshot) /\ reported # "InProgress"

\* a game whose last action completed a line was stopped by max_turns and
\* reported as a draw
C37_Witness ==
    /\ GameFinishedSeen
    /\ CutByMaxTurns
    /\ outcome(unwrap(last_event.context).game) = "Win"
    /\ last_event.payload = Some("Draw")

\* a game without max_turns ended by its own outcome
C37_OutcomeWitness ==
    /\ GameFinishedSeen
    /\ ~CutByMaxTurns
    /\ last_event.payload = Some("Win")

\* C38: outcome() is Loss if opponent_marks holds one of the eight lines (three
\* rows, three columns, two diagonals), else Win if player_marks holds one,
\* else Draw if all nine squares are occupied, else InProgress; and the
\* precomputed masks are exactly these eight lines.
C38_Outcome ==
    f_pc = "outcome" =>
        LET g == f_args.game
        IN /\ f_result =
                 (IF \E line \in WinningLines : line \subseteq g.opponent_marks THEN "Loss"
                  ELSE IF \E line \in WinningLines : line \subseteq g.player_marks THEN "Win"
                  ELSE IF Cardinality(g.player_marks \cup g.opponent_marks) = 9 THEN "Draw"
                  ELSE "InProgress")
           /\ THREE_IN_A_ROW_MASKS = WinningLines

\* outcome() was called on a board where the player holds the diagonal 2-4-6
\* and no other line
C38_Witness ==
    /\ f_pc = "outcome"
    /\ f_args.game.player_marks = {2, 4, 6}
    /\ f_result = "Win"

\* outcome() was called on a board where both sides hold a line
C38_LossFirstWitness ==
    /\ f_pc = "outcome"
    /\ {0, 1, 2} \subseteq f_args.game.player_marks
    /\ {6, 7, 8} \subseteq f_args.game.opponent_marks
    /\ f_result = "Loss"

\* outcome() was called on a full board without a line
C38_DrawWitness ==
    /\ f_pc = "outcome"
    /\ f_result = "Draw"

Board(g, name) ==
    CASE name = "player_kittens" -> g.player_kittens
      [] name = "player_cats" -> g.player_cats
      [] name = "opponent_kittens" -> g.opponent_kittens
      [] name = "opponent_cats" -> g.opponent_cats

AllPieces(g) == UNION {Board(g, name) : name \in BoardNames}

\* the square one step further from p than q, as <<x, y>>
Behind(p, q) ==
    <<2 * index_to_xy(q)[1] - index_to_xy(p)[1], 2 * index_to_xy(q)[2] - index_to_xy(p)[2]>>

\* the piece of board `name` on square q is pushed when `piece` is placed on p
Pushed(p, piece, name, q) ==
    /\ Distance(p, q) = 1
    /\ piece = "Cat" \/ name \in {"player_kittens", "opponent_kittens"}

LeavesBoard(p, q) == ~OnBoard(Behind(p, q)[1], Behind(p, q)[2])

\* where the piece of board `name` on square q of g is after the placement:
\* the empty set when it has left the board
SquareAfter(g, p, piece, name, q) ==
    IF ~Pushed(p, piece, name, q) THEN {q}
    ELSE IF LeavesBoard(p, q) THEN {}
    ELSE LET behind == Boop_xy_to_mask(Behind(p, q)[1], Behind(p, q)[2])
         IN IF behind \in AllPieces(g) THEN {q} ELSE {behind}

opponent_kittens_available(g) ==
    POOL_SIZE - g.opponent_graduations - Cardinality(g.opponent_kittens)

opponent_cats_available(g) == g.opponent_graduations - Cardinality(g.opponent_cats)

\* C39: placing a piece on an empty square pushes every adjacent piece it can
\* push (any piece for a cat, the kittens of both sides for a kitten) one
\* square straight away from it; a piece whose square behind is occupied
\* stays; a piece pushed over the edge leaves the board and is back in its
\* owner's pool; the placed piece and every other piece stay where they are.
C39_Boop ==
    f_pc = "placed" =>
        LET before == f_args.game
            p == f_args.index
            piece == f_args.piece
            placed == IF piece = "Kitten" THEN "player_kittens" ELSE "player_cats"
            gone(name) == {q \in Board(before, name) :
                              Pushed(p, piece, name, q) /\ LeavesBoard(p, q)}
            drawn(name) == IF name = placed THEN 1 ELSE 0
        IN /\ \A name \in BoardNames :
                 Board(f_result, name) =
                     UNION {SquareAfter(before, p, piece, name, q) : q \in Board(before, name)}
                         \cup (IF name = placed THEN {p} ELSE {})
           /\ Cardinality(AllPieces(f_result))
                 = Cardinality(AllPieces(before)) + 1
                     - Cardinality(UNION {gone(name) : name \in BoardNames})
           /\ player_pool(f_result).kittens_available
                 = player_pool(before).kittens_available
                     + Cardinality(gone("player_kittens")) - drawn("player_kittens")
           /\ player_pool(f_result).cats_available
                 = player_pool(before).cats_available
                     + Cardinality(gone("player_cats")) - drawn("player_cats")
           /\ opponent_kittens_available(f_result)
                 = opponent_kittens_available(before) + Cardinality(gone("opponent_kittens"))
           /\ opponent_cats_available(f_result)
                 = opponent_cats_available(before) + Cardinality(gone("opponent_cats"))

\* a cat was placed on square 7 next to an opponent cat that left the board
\* and a kitten that was blocked by the piece behind it
C39_Witness ==
    /\ f_pc = "placed"
    /\ f_args.piece = "Cat"
    /\ f_args.index = 7
    /\ 0 \in f_args.game.opponent_cats /\ 0 \notin AllPieces(f_result)
    /\ opponent_cats_available(f_result) = 1
    /\ 19 \in AllPieces(f_args.game)
    /\ 13 \in f_args.game.player_kittens /\ 13 \in f_result.player_kittens

\* a kitten was placed next to a cat, which stayed, and a kitten, which moved
C39_KittenWitness ==
    /\ f_pc = "placed"
    /\ f_args.piece = "Kitten"
    /\ f_args.index = 7
    /\ 8 \in f_args.game.opponent_cats /\ 8 \in f_result.opponent_cats
    /\ 13 \in f_args.game.opponent_kittens /\ 19 \in f_result.opponent_kittens

\* C40 (state part): for each side, kittens on the board plus graduations are
\* at most 8 and the cats on the board are at most the graduations, so the
\* pool counts do not underflow and the pieces on the board and in the pool
\* are 8; no square holds more than one piece.
C40_Pieces ==
    LET g == g_boop
    IN /\ g.player_graduations >= 0 /\ g.opponent_graduations >= 0
       /\ Cardinality(g.player_kittens) + g.player_graduations <= POOL_SIZE
       /\ Cardinality(g.opponent_kittens) + g.opponent_graduations <= POOL_SIZE
       /\ Cardinality(g.player_cats) <= g.player_graduations
       /\ Cardinality(g.opponent_cats) <= g.opponent_graduations
       /\ Cardinality(g.player_kittens) + Cardinality(g.player_cats)
             + player_pool(g).kittens_available + player_pool(g).cats_available = POOL_SIZE
       /\ Cardinality(g.opponent_kittens) + Cardinality(g.opponent_cats)
             + opponent_kittens_available(g) + opponent_cats_available(g) = POOL_SIZE
       /\ \A a, b \in BoardNames : a # b => Board(g, a) \cap Board(g, b) = {}

\* C40 (step part): a Place that leaves the mover with three in a row or with
\* all 8 pieces on the board switches the phase to Graduate and does not
\* complete the turn; end_turn resets the phase to Place.
C40_Step ==
    /\ (g_pc = "act" /\ g_boop.phase = "Place" /\ g_plies' = g_plies + 1) =>
          LET mine == g_boop'.player_kittens \cup g_boop'.player_cats
          IN (has_three_in_a_row(mine) \/ Cardinality(mine) = POOL_SIZE) =>
                (g_boop'.phase = "Graduate" /\ g_pc' = "act")
    /\ (g_pc = "end_turn" /\ g_pc' = "act") => g_boop'.phase = "Place"

\* C40: in every state reached under the protocol the piece counts of both
\* sides are within the pool and no square holds two pieces; every Place that
\* leaves the mover with a line or with 8 pieces enters the Graduate phase
\* without completing the turn, and every end_turn resets the phase to Place
C40_Boop == []C40_Pieces /\ [][C40_Step]_vars

\* the mover has placed its eighth piece without a line: the phase is
\* Graduate and every piece on the board can graduate alone
C40_Witness ==
    /\ g_pc = "act"
    /\ g_boop.phase = "Graduate"
    /\ Cardinality(g_boop.player_kittens \cup g_boop.player_cats) = POOL_SIZE
    /\ player_pool(g_boop).kittens_available = 0
    /\ Len(get_possible_graduate_actions(g_boop)) >= POOL_SIZE

\* three kittens in a row have graduated and the turn has ended
C40_LineWitness ==
    /\ g_pc = "act"
    /\ g_boop.phase = "Place"
    /\ g_boop.opponent_graduations = 3
    /\ g_boop.opponent_kittens = {}

\* a cat is on the board
C40_CatWitness == g_boop.player_cats # {} \/ g_boop.opponent_cats # {}

====
